---- MODULE Spec2Model ----
(***************************************************************************)
(* Model of the Spartan paper-trading core: the PnL simulator              *)
(* (simulation/pnl_simulator.py), the order-sizing collaborator            *)
(* (trading/order_manager.py) and the monitoring loop that drives them     *)
(* (monitoring/strategy_monitor.py).                                       *)
(*                                                                         *)
(* Numbers.  Prices are integers (ticks).  Quantities are fixed-point      *)
(* integers with QtyScale units per whole unit.  Money amounts (PnL,       *)
(* commissions, balance) are integers in units of 1/(FeeDen*QtyScale), so  *)
(* that price*quantity*fee is exact: a fee of 0.0004 is the numerator 4    *)
(* over FeeDen = 10000.                                                    *)
(***************************************************************************)
EXTENDS Integers, Sequences, FiniteSets, TLC

(***************************************************************************)
(* Bounds of the model                                                     *)
(***************************************************************************)
\* positions opened in one behaviour by direct calls (bounds the clock)
ApiMaxOpens == 2
\* positions opened in one behaviour by the monitoring loop's tasks
MaxOpens == 3
\* timed-out tasks still running beside the tasks of the current cycle
MaxStragglers == 1
\* cycles of the monitoring loop in one behaviour
MaxCycles == 2
\* fixed-point resolution of quantities (the code rounds to 6 decimals)
QtyScale == 100

(***************************************************************************)
(* Program constants.  config/settings.py gives maker_fee and taker_fee;    *)
(* MAX_OPEN_POSITIONS, INITIAL_BALANCE, POSITION_SIZE and                  *)
(* AUTO_CLOSE_ON_TARGET are imported from it by the simulator but not      *)
(* defined in it, and take values the specification's configuration        *)
(* section admits (maxPositions in 1..20, bracket evaluation on).          *)
(***************************************************************************)
FeeDen == 10000
maker_fee == 4
taker_fee == 5
MAX_OPEN_POSITIONS == 2
INITIAL_BALANCE == 1000
POSITION_SIZE == 100
AUTO_CLOSE_ON_TARGET == TRUE
risk_reward_ratio == 2
MultDen == 1000

Symbols == {"S1", "S2", "S3"}

VARIABLES
  open_positions,         \* dict symbol -> Position, in insertion order
  closed_trades,          \* list of ClosedTrade
  current_balance,
  total_trades,
  winning_trades,
  total_commissions_paid,
  clock,                  \* datetime.now(), a logical clock
  ret,                    \* the last direct simulator call and what it returned
  status_price,           \* SymbolStatus.current_price of every monitored symbol
  tasks,                  \* the _process_symbol tasks in the thread pool
  futures,                \* the futures the monitoring loop still waits for
  loop_pc,                \* where the monitoring loop is in its cycle
  cycle,                  \* the number of cycles begun
  old_fresh,              \* symbols whose timed-out task was submitted in this cycle
  opened_this_cycle,      \* symbols whose open position a task of this cycle stored
  mon_state,              \* monitoring_status.state
  monitoring_active,      \* the flag the monitoring loop tests
  caller_pc,              \* where the caller of start_monitoring/stop_monitoring is
  call_ret,               \* the last start/stop call that returned, and its result
  join_wait,              \* time stop_monitoring has waited in monitor_thread.join
  sym_state,              \* SymbolStatus.state of every symbol
  error_counts,           \* error_counts of every symbol
  err_age,                \* time since last_errors[symbol]; -1: no entry
  handler_read,           \* the error count a running _handle_symbol_error has read; -1: none
  trend_magic_color,      \* SymbolStatus.trend_magic_color of every symbol
  squeeze_status,         \* SymbolStatus.squeeze_status of every symbol
  latest_signal_type,     \* SymbolStatus.latest_signal_type of every symbol
  task_colors,            \* what a task computed and read: its locals tm_color, squeeze_color
  cache,                  \* DataCache._cache: the entries, least recently used first
  current_size_bytes,     \* DataCache.current_size_bytes
  cache_ret,              \* the last cache operation and what it returned
  request_timestamps,     \* MarketDataProvider.request_timestamps
  weight_usage,           \* MarketDataProvider.weight_usage: (timestamp, weight)
  callers,                \* the threads in _make_request: position and locals
  issued,                 \* the requests sent to the exchange within the last window
  calls,                  \* how many calls of _make_request have begun
  proc,                   \* the _process_symbol call under way: position and locals
  paused,                 \* the symbols paused by pause_symbol and not yet resumed
  db_trades,              \* the rows of the trades table of SQLiteTradeLogger
  last_log,               \* what log_trade returned to the last close_position calls
  loops,                  \* the _monitoring_loop threads ever started: position, sleep left
  monitor_thread,         \* self.monitor_thread: the thread of the last start
  janitor,                \* the cleanup_worker thread of DataCache: position, wake time
  stop_cleanup,           \* DataCache._stop_cleanup
  bars,                   \* the candles of TechnicalAnalyzer.df with their CCI and ATR
  magic_trend             \* the series trend_magic_v3 computed last

simVars == <<open_positions, closed_trades, current_balance, total_trades,
             winning_trades, total_commissions_paid>>
monVars == <<status_price, tasks, futures, loop_pc, cycle, old_fresh,
             opened_this_cycle>>
callVars == <<mon_state, monitoring_active, caller_pc, call_ret, join_wait>>
errVars == <<sym_state, error_counts, err_age, handler_read>>
lifeVars == <<mon_state, monitoring_active, caller_pc, call_ret, join_wait,
              sym_state, error_counts, err_age, handler_read>>
sigVars == <<trend_magic_color, squeeze_status, latest_signal_type, task_colors>>
cacheVars == <<cache, current_size_bytes, cache_ret>>
rateVars == <<request_timestamps, weight_usage, callers, issued, calls>>
procVars == <<proc, paused>>
persistVars == <<db_trades, last_log>>
loopsVars == <<loops, monitor_thread>>
janitorVars == <<janitor, stop_cleanup>>
trendVars == <<bars, magic_trend>>
lateVars == <<janitorVars, trendVars>>
moreVars == <<procVars, persistVars, loopsVars, lateVars>>
extVars == <<sigVars, cacheVars, rateVars, moreVars>>
vars == <<open_positions, closed_trades, current_balance, total_trades,
          winning_trades, total_commissions_paid, clock, ret,
          status_price, tasks, futures, loop_pc, cycle, old_fresh,
          opened_this_cycle, mon_state, monitoring_active, caller_pc,
          call_ret, join_wait, sym_state, error_counts, err_age,
          handler_read, extVars>>

(***************************************************************************)
(* The dict open_positions: a sequence of Position records, one per key,   *)
(* in insertion order (Python dicts iterate in insertion order).           *)
(***************************************************************************)
Keys(d) == {d[i].symbol : i \in 1..Len(d)}

Contains(d, s) == s \in Keys(d)

Get(d, s) == d[CHOOSE i \in 1..Len(d) : d[i].symbol = s]

\* d[s] = p : a new key is appended, an existing key keeps its place
SetItem(d, s, p) ==
  IF Contains(d, s)
  THEN [i \in 1..Len(d) |-> IF d[i].symbol = s THEN p ELSE d[i]]
  ELSE Append(d, p)

\* del d[s]
DelItem(d, s) == SelectSeq(d, LAMBDA p : p.symbol # s)

(***************************************************************************)
(* Position                                                                *)
(***************************************************************************)
PositionSide(side) == IF side = "LONG" THEN "LONG" ELSE "SHORT"

calculate_pnl(position, current_price) ==
  IF position.side = "LONG"
  THEN ((current_price - position.entry_price) * position.quantity) * FeeDen
  ELSE ((position.entry_price - current_price) * position.quantity) * FeeDen

\* calculate_real_pnl that forgets the exit commission
calculate_real_pnl_no_exit_fee(position, current_price, exit_commission) ==
  calculate_pnl(position, current_price) - position.entry_commission

calculate_real_pnl(position, current_price, exit_commission) ==
  calculate_pnl(position, current_price)
    - (position.entry_commission + exit_commission)

\* should_close with strict comparisons: a price on the boundary closes nothing
should_close_strict(position, current_price) ==
  IF position.side = "LONG"
  THEN IF current_price < position.stop_loss THEN "STOP_LOSS"
       ELSE IF current_price > position.take_profit THEN "TAKE_PROFIT"
       ELSE "NONE"
  ELSE IF current_price > position.stop_loss THEN "STOP_LOSS"
       ELSE IF current_price < position.take_profit THEN "TAKE_PROFIT"
       ELSE "NONE"

\* should_close that tests the take-profit before the stop-loss
should_close_target_first(position, current_price) ==
  IF position.side = "LONG"
  THEN IF current_price >= position.take_profit THEN "TAKE_PROFIT"
       ELSE IF current_price <= position.stop_loss THEN "STOP_LOSS"
       ELSE "NONE"
  ELSE IF current_price <= position.take_profit THEN "TAKE_PROFIT"
       ELSE IF current_price >= position.stop_loss THEN "STOP_LOSS"
       ELSE "NONE"

should_close(position, current_price) ==
  IF ~AUTO_CLOSE_ON_TARGET THEN "NONE"
  ELSE IF position.side = "LONG"
       THEN IF current_price <= position.stop_loss THEN "STOP_LOSS"
            ELSE IF current_price >= position.take_profit THEN "TAKE_PROFIT"
            ELSE "NONE"
       ELSE IF current_price >= position.stop_loss THEN "STOP_LOSS"
            ELSE IF current_price <= position.take_profit THEN "TAKE_PROFIT"
            ELSE "NONE"

is_winner(trade) == trade.real_pnl > 0

(***************************************************************************)
(* PnLSimulator, as functions of the simulator state                       *)
(***************************************************************************)
Sim == [open_positions |-> open_positions,
        closed_trades |-> closed_trades,
        current_balance |-> current_balance,
        total_trades |-> total_trades,
        winning_trades |-> winning_trades,
        total_commissions_paid |-> total_commissions_paid]

SetSim(st) ==
  /\ open_positions' = st.open_positions
  /\ closed_trades' = st.closed_trades
  /\ current_balance' = st.current_balance
  /\ total_trades' = st.total_trades
  /\ winning_trades' = st.winning_trades
  /\ total_commissions_paid' = st.total_commissions_paid

can_open_position(d) == Len(d) < MAX_OPEN_POSITIONS

entry_commission_of(entry_price, quantity) == (entry_price * quantity) * maker_fee

new_position(symbol, side, entry_price, quantity, stop_loss, take_profit, now) ==
  [symbol |-> symbol,
   side |-> PositionSide(side),
   entry_price |-> entry_price,
   quantity |-> quantity,
   stop_loss |-> stop_loss,
   take_profit |-> take_profit,
   entry_time |-> now,
   entry_commission |-> entry_commission_of(entry_price, quantity)]

\* open_position without the test for an existing position of the symbol
open_accepts_capacity_only(d, symbol) == can_open_position(d)

\* open_position: TRUE iff the two guards let the call through
open_accepts(d, symbol) == can_open_position(d) /\ ~Contains(d, symbol)

\* the state after open_position has stored the position and charged the fee
open_insert(st, position) ==
  [st EXCEPT !.open_positions = SetItem(@, position.symbol, position),
             !.total_commissions_paid = @ + position.entry_commission]

\* the ClosedTrade that close_position builds
close_trade(position, exit_price, reason, now) ==
  LET exit_commission == (exit_price * position.quantity) * taker_fee
  IN [symbol |-> position.symbol,
      side |-> position.side,
      entry_price |-> position.entry_price,
      exit_price |-> exit_price,
      quantity |-> position.quantity,
      entry_time |-> position.entry_time,
      exit_time |-> now,
      gross_pnl |-> calculate_pnl(position, exit_price),
      real_pnl |-> calculate_real_pnl(position, exit_price, exit_commission),
      total_commissions |-> position.entry_commission + exit_commission,
      close_reason |-> reason,
      stop_loss |-> position.stop_loss,
      take_profit |-> position.take_profit]

\* close_position that credits the gross PnL to the balance
close_position_gross_balance(st, symbol, exit_price, reason, now) ==
  IF ~Contains(st.open_positions, symbol) THEN st
  ELSE LET position == Get(st.open_positions, symbol)
           trade == close_trade(position, exit_price, reason, now)
       IN [st EXCEPT !.open_positions = DelItem(@, symbol),
                     !.closed_trades = Append(@, trade),
                     !.current_balance = @ + trade.gross_pnl,
                     !.total_trades = @ + 1]

\* close_position that records the trade and leaves the position open
close_position_keeps_open(st, symbol, exit_price, reason, now) ==
  IF ~Contains(st.open_positions, symbol) THEN st
  ELSE LET position == Get(st.open_positions, symbol)
           trade == close_trade(position, exit_price, reason, now)
       IN [st EXCEPT !.closed_trades = Append(@, trade),
                     !.current_balance = @ + trade.real_pnl,
                     !.total_trades = @ + 1]

\* close_position; SQLiteTradeLogger.log_trade catches its own failures and
\* only returns a flag, so its outcome does not reach the simulator state
close_position(st, symbol, exit_price, reason, now) ==
  IF ~Contains(st.open_positions, symbol) THEN st
  ELSE LET position == Get(st.open_positions, symbol)
           trade == close_trade(position, exit_price, reason, now)
           exit_commission == (exit_price * position.quantity) * taker_fee
       IN [open_positions |-> DelItem(st.open_positions, symbol),
           closed_trades |-> Append(st.closed_trades, trade),
           current_balance |-> st.current_balance + trade.real_pnl,
           total_trades |-> st.total_trades + 1,
           winning_trades |-> st.winning_trades
                                + (IF is_winner(trade) THEN 1 ELSE 0),
           total_commissions_paid |-> st.total_commissions_paid + exit_commission]

\* update_positions, first loop: (symbol, price, reason) of every open
\* position whose symbol is priced and whose bracket is breached, in dict order
positions_to_close(d, market_data) ==
  SelectSeq(
    [i \in 1..Len(d) |->
       IF d[i].symbol \in DOMAIN market_data
       THEN [symbol |-> d[i].symbol,
             price |-> market_data[d[i].symbol],
             reason |-> should_close(d[i], market_data[d[i].symbol])]
       ELSE [symbol |-> d[i].symbol, price |-> 0, reason |-> "NONE"]],
    LAMBDA c : c.reason # "NONE")

\* update_positions, second loop: close them one after the other
RECURSIVE close_all(_, _, _)
close_all(st, todo, now) ==
  IF todo = <<>> THEN st
  ELSE close_all(close_position(st, Head(todo).symbol, Head(todo).price,
                                Head(todo).reason, now),
                 Tail(todo), now)

update_positions(st, market_data, now) ==
  close_all(st, positions_to_close(st.open_positions, market_data), now)

(***************************************************************************)
(* OrderManager                                                            *)
(***************************************************************************)
\* _get_stop_loss_multiplier, in thousandths
get_stop_loss_multiplier(timeframe) ==
  CASE timeframe = "1m" -> 3
    [] timeframe = "3m" -> 5
    [] timeframe = "5m" -> 7
    [] timeframe = "15m" -> 10
    [] timeframe = "30m" -> 15
    [] timeframe = "1h" -> 20
    [] timeframe = "2h" -> 25
    [] timeframe = "4h" -> 30
    [] timeframe = "6h" -> 35
    [] timeframe = "12h" -> 40
    [] timeframe = "1d" -> 50
    [] OTHER -> 10

\* round(n / d) to the nearest integer, for n >= 0 and d > 0
RoundDiv(n, d) == (2 * n + d) \div (2 * d)

NoSuggestion == <<>>

\* generate_order_suggestion that puts the stop-loss on the wrong side of the
\* trend line
generate_order_suggestion_wrong_side(signal_type, entry_price, tm_value, timeframe) ==
  LET m == get_stop_loss_multiplier(timeframe)
      stop_loss == IF signal_type = "LONG"
                   THEN (tm_value * (MultDen + m)) \div MultDen
                   ELSE (tm_value * (MultDen - m)) \div MultDen
      take_profit == IF signal_type = "LONG"
                     THEN entry_price + (entry_price - stop_loss) * risk_reward_ratio
                     ELSE entry_price - (stop_loss - entry_price) * risk_reward_ratio
  IN IF signal_type \notin {"LONG", "SHORT"} \/ entry_price <= 0 THEN NoSuggestion
     ELSE [side |-> signal_type,
           quantity |-> RoundDiv(POSITION_SIZE * QtyScale, entry_price),
           price |-> entry_price,
           stop_loss |-> stop_loss,
           take_profit |-> take_profit]

\* generate_order_suggestion; NoSuggestion stands for None.  The model's
\* trend-line values are multiples of 50, for which tm_value * (1 -+ m) is
\* an integer.
generate_order_suggestion(signal_type, entry_price, tm_value, timeframe) ==
  LET m == get_stop_loss_multiplier(timeframe)
      stop_loss == IF signal_type = "LONG"
                   THEN (tm_value * (MultDen - m)) \div MultDen
                   ELSE (tm_value * (MultDen + m)) \div MultDen
      take_profit == IF signal_type = "LONG"
                     THEN entry_price + (entry_price - stop_loss) * risk_reward_ratio
                     ELSE entry_price - (stop_loss - entry_price) * risk_reward_ratio
  IN IF signal_type \notin {"LONG", "SHORT"} THEN NoSuggestion
     ELSE IF entry_price = 0 THEN NoSuggestion          \* ZeroDivisionError, caught
     ELSE IF entry_price < 0 THEN NoSuggestion          \* quantity <= 0
     ELSE [side |-> signal_type,
           quantity |-> RoundDiv(POSITION_SIZE * QtyScale, entry_price),
           price |-> entry_price,
           stop_loss |-> stop_loss,
           take_profit |-> take_profit]

(***************************************************************************)
(* StrategyMonitor._process_symbol: the signal conditions                  *)
(***************************************************************************)
detect_signal(open_price, price, tm_value, tm_color, squeeze_color) ==
  IF open_price < tm_value /\ price > tm_value
       /\ tm_color = "BLUE" /\ squeeze_color \in {"MAROON", "LIME"}
  THEN "LONG"
  ELSE IF open_price > tm_value /\ price < tm_value
            /\ tm_color = "RED" /\ squeeze_color \in {"GREEN", "RED"}
       THEN "SHORT"
       ELSE "NONE"

(***************************************************************************)
(* Direct use of the simulator, one call at a time (as the repository's    *)
(* test scripts do): every call runs to completion before the next.        *)
(***************************************************************************)
ApiPrices == {95, 100, 105}
\* the orders a caller passes: both sides with a proper bracket, both sides
\* with an inverted bracket (stop-loss and take-profit overlap), and one
\* order of quantity 0
ApiOrders ==
  {[side |-> "LONG", quantity |-> QtyScale, stop_loss |-> 95, take_profit |-> 105],
   [side |-> "SHORT", quantity |-> QtyScale, stop_loss |-> 105, take_profit |-> 95],
   [side |-> "LONG", quantity |-> QtyScale, stop_loss |-> 105, take_profit |-> 95],
   [side |-> "SHORT", quantity |-> QtyScale, stop_loss |-> 95, take_profit |-> 105],
   [side |-> "LONG", quantity |-> 0, stop_loss |-> 95, take_profit |-> 105]}

\* market_data arguments: a price for some of the symbols
PriceMaps == UNION {[D -> ApiPrices] : D \in SUBSET Symbols}

NoCall == [op |-> "init", symbol |-> "-", quantity |-> 0, val |-> FALSE, closed |-> 0]

NoTask == [pc |-> "idle", suggestion |-> <<>>]

\* a task that has computed and read nothing
NoColors == [tm_color |-> "None", squeeze_color |-> "None", computed |-> FALSE]

TaskKeys == Symbols \X {"cur", "old"}

SimInit ==
  /\ open_positions = <<>>
  /\ closed_trades = <<>>
  /\ current_balance = INITIAL_BALANCE * FeeDen * QtyScale
  /\ total_trades = 0
  /\ winning_trades = 0
  /\ total_commissions_paid = 0
  /\ clock = 0
  /\ ret = NoCall

MonInit ==
  /\ status_price = [s \in Symbols |-> 0]
  /\ tasks = [k \in TaskKeys |-> NoTask]
  /\ futures = <<>>
  /\ loop_pc = "submit"
  /\ cycle = 0
  /\ old_fresh = {}
  /\ opened_this_cycle = {}

\* StrategyMonitor.__init__: STOPPED, no loop thread; add_symbol has given
\* every symbol the state INACTIVE and the error count 0
\* the threads that can run _handle_symbol_error for a symbol: the monitoring
\* loop, the task of the current cycle, a task of an earlier cycle
Handlers == Symbols \X {"loop", "cur", "old"}

LifeInit ==
  /\ mon_state = "STOPPED"
  /\ monitoring_active = FALSE
  /\ caller_pc = "idle"
  /\ call_ret = [op |-> "none", val |-> FALSE]
  /\ join_wait = 0
  /\ sym_state = [s \in Symbols |-> "INACTIVE"]
  /\ error_counts = [s \in Symbols |-> 0]
  /\ err_age = [s \in Symbols |-> -1]
  /\ handler_read = [h \in Handlers |-> -1]

\* the same after start_monitoring has returned True
Started ==
  /\ mon_state = "RUNNING"
  /\ monitoring_active = TRUE
  /\ caller_pc = "idle"
  /\ call_ret = [op |-> "start", val |-> TRUE]
  /\ join_wait = 0
  /\ sym_state = [s \in Symbols |-> "INACTIVE"]
  /\ error_counts = [s \in Symbols |-> 0]
  /\ err_age = [s \in Symbols |-> -1]
  /\ handler_read = [h \in Handlers |-> -1]

\* the budgets of the exchange client, scaled down from 1200 requests and
\* 6000 weight per 60 seconds
rate_limit_requests_per_minute == 2
rate_limit_weight_per_minute == 3
WindowTicks == 2
MaxCalls == 3
MaxRateClock == 2
Callers == {"t1", "t2"}
\* _make_request(..., weight=1), and a heavier call such as exchangeInfo
Weights == {1, 2}

NoCaller == [pc |-> "idle", now |-> 0, weight |-> 0, tmp |-> <<>>, wake |-> 0,
             waited |-> FALSE]

\* MarketDataProvider.__init__
RateInit ==
  /\ request_timestamps = <<>>
  /\ weight_usage = <<>>
  /\ callers = [t \in Callers |-> NoCaller]
  /\ issued = <<>>
  /\ calls = 0

\* no series
None == [id |-> "None", size |-> 0]

NoCacheCall == [op |-> "init", val |-> None, removed |-> 0]

\* DataCache.__init__
CacheInit ==
  /\ cache = <<>>
  /\ current_size_bytes = 0
  /\ cache_ret = NoCacheCall

\* SymbolStatus(symbol=..., state=..., last_update=...): no colours, no signal
SigInit ==
  /\ trend_magic_color = [s \in Symbols |-> "None"]
  /\ squeeze_status = [s \in Symbols |-> "None"]
  /\ latest_signal_type = [s \in Symbols |-> "None"]
  /\ task_colors = [k \in TaskKeys |-> NoColors]

\* no _process_symbol call under way
NoProc == [pc |-> "idle", symbol |-> "-", retries |-> 0, attempts |-> 0,
           status |-> "-", data |-> "-"]

\* StrategyMonitor.__init__: no symbol is paused
ProcInit ==
  /\ proc = NoProc
  /\ paused = {}

\* SQLiteTradeLogger.__init__: the table of a fresh database
PersistInit ==
  /\ db_trades = <<>>
  /\ last_log = <<>>

\* the threads a behaviour can start
LoopIds == {"L1", "L2", "L3"}
NoLoop == [pc |-> "none", left |-> 0]

\* StrategyMonitor.__init__: self.monitor_thread = None
LoopsInit ==
  /\ loops = [l \in LoopIds |-> NoLoop]
  /\ monitor_thread = "None"

\* DataCache.__init__ starts the cleanup thread, which sweeps at once
JanitorInit ==
  /\ janitor = [pc |-> "test", wake |-> 0]
  /\ stop_cleanup = FALSE

\* TechnicalAnalyzer before any candle was fetched
TrendInit ==
  /\ bars = <<>>
  /\ magic_trend = <<>>

MoreInit == ProcInit /\ PersistInit /\ LoopsInit /\ JanitorInit /\ TrendInit

ExtInit == SigInit /\ CacheInit /\ RateInit /\ MoreInit

\* the simulator and the loop of a started monitor; the actions of SpecApi and
\* Spec follow positions and prices and leave the lifecycle and error
\* variables as they are (SpecLife below follows those)
Init == SimInit /\ MonInit /\ Started /\ ExtInit

\* PnLSimulator.open_position(symbol, side, entry_price, quantity, stop_loss, take_profit)
ApiOpen(symbol, side, entry_price, quantity, stop_loss, take_profit) ==
  /\ IF open_accepts(open_positions, symbol)
     THEN /\ clock < ApiMaxOpens
          /\ SetSim(open_insert(Sim, new_position(symbol, side, entry_price,
                       quantity, stop_loss, take_profit, clock + 1)))
          /\ clock' = clock + 1
          /\ ret' = [NoCall EXCEPT !.op = "open", !.symbol = symbol,
                                   !.quantity = quantity, !.val = TRUE]
     ELSE /\ UNCHANGED <<simVars, clock>>
          /\ ret' = [NoCall EXCEPT !.op = "open", !.symbol = symbol,
                                   !.quantity = quantity, !.val = FALSE]
  /\ UNCHANGED <<monVars, lifeVars, extVars>>

\* PnLSimulator.close_position(symbol, exit_price)  (reason MANUAL)
ApiClose(symbol, exit_price) ==
  /\ SetSim(close_position(Sim, symbol, exit_price, "MANUAL", clock))
  /\ ret' = [NoCall EXCEPT !.op = "close", !.symbol = symbol,
                           !.val = Contains(open_positions, symbol)]
  /\ UNCHANGED <<clock, monVars, lifeVars, extVars>>

\* PnLSimulator.update_positions(market_data)
ApiUpdate(market_data) ==
  /\ SetSim(update_positions(Sim, market_data, clock))
  /\ ret' = [NoCall EXCEPT !.op = "update",
                !.closed = Len(positions_to_close(open_positions, market_data))]
  /\ UNCHANGED <<clock, monVars, lifeVars, extVars>>

ApiNext ==
  \/ \E symbol \in Symbols, o \in ApiOrders :
       ApiOpen(symbol, o.side, 100, o.quantity, o.stop_loss, o.take_profit)
  \/ \E symbol \in Symbols : ApiClose(symbol, 100)
  \/ \E market_data \in PriceMaps : ApiUpdate(market_data)

SpecApi == Init /\ [][ApiNext]_vars

(***************************************************************************)
(* The monitoring loop and its thread-pool tasks.  A task is the run of    *)
(* _process_symbol(symbol) submitted in the current cycle ("cur"), or one  *)
(* of an earlier cycle whose future timed out and that is still running    *)
(* ("old": future.result(timeout=30) gives up waiting, the thread goes     *)
(* on).  The simulator takes no lock, so the steps of open_position of     *)
(* different tasks interleave.                                             *)
(***************************************************************************)
timeframe == "1h"

\* what one task may observe of the market: the latest candle's open and
\* close, and the indicator outputs (trend line 100)
Candles == {[open |-> 99, close |-> 101],      \* up through the trend line
            [open |-> 109, close |-> 93],      \* down through the trend line
            [open |-> 107, close |-> 107]}     \* above the trend line
TmValues == {100}
TmColors == {"BLUE", "RED"}
SqueezeColors == {"LIME", "GREEN", "RED", "MAROON"}

Busy(t) == t.pc \notin {"idle", "done"}

\* tasks that hold an order suggestion they have not yet stored
Pending == {k \in TaskKeys : tasks[k].suggestion # NoSuggestion}

Stragglers == {s \in Symbols : Busy(tasks[<<s, "old">>])}

SetTask(k, t) == tasks' = [tasks EXCEPT ![k] = t]

\* a task leaves the pool: the future of a current task stays to be
\* collected, a timed-out one has nobody waiting
Ended(k) == IF k[2] = "cur" THEN [pc |-> "done", suggestion |-> NoSuggestion]
            ELSE NoTask

\* _monitoring_loop: submit _process_symbol for every active symbol
Submit ==
  /\ loop_pc = "submit"
  /\ cycle < MaxCycles
  /\ cycle' = cycle + 1
  /\ tasks' = [k \in TaskKeys |->
                IF k[2] = "cur" THEN [pc |-> "start", suggestion |-> NoSuggestion]
                ELSE tasks[k]]
  /\ futures' = <<"S1", "S2", "S3">>
  /\ loop_pc' = "wait"
  /\ old_fresh' = {}
  /\ opened_this_cycle' = {}
  /\ UNCHANGED <<lifeVars, extVars, simVars, clock, ret, status_price>>

\* _process_symbol up to the order suggestion: fetch the candles, compute
\* the indicators, store the price, test the signal conditions
Observe(k, open_price, price, tm_value, tm_color, squeeze_color) ==
  LET signal == detect_signal(open_price, price, tm_value, tm_color, squeeze_color)
      suggestion == generate_order_suggestion(signal, price, tm_value, timeframe)
  IN /\ tasks[k].pc = "start"
     /\ status_price' = [status_price EXCEPT ![k[1]] = price]
     /\ IF suggestion # NoSuggestion
        THEN /\ clock + Cardinality(Pending) < MaxOpens
             /\ SetTask(k, [pc |-> "can_open", suggestion |-> suggestion])
        ELSE SetTask(k, Ended(k))
     /\ UNCHANGED <<lifeVars, extVars, simVars, clock, ret, futures, loop_pc, cycle, old_fresh,
                    opened_this_cycle>>

\* _process_symbol: no market data, the exception goes to _handle_symbol_error
ObserveFails(k) ==
  /\ tasks[k].pc = "start"
  /\ SetTask(k, Ended(k))
  /\ UNCHANGED <<lifeVars, extVars, simVars, clock, ret, status_price, futures, loop_pc, cycle,
                 old_fresh, opened_this_cycle>>

\* _process_symbol: if order_suggestion and self.pnl_simulator.can_open_position(),
\* then in open_position: if not self.can_open_position(): return False and
\* if symbol in self.open_positions: return False.  The three reads are one
\* step: the task writes nothing between them.
OpenChecks(k) ==
  /\ tasks[k].pc = "can_open"
  /\ IF can_open_position(open_positions) /\ open_accepts(open_positions, k[1])
     THEN SetTask(k, [tasks[k] EXCEPT !.pc = "insert"])
     ELSE SetTask(k, Ended(k))
  /\ UNCHANGED <<lifeVars, extVars, simVars, clock, ret, status_price, futures, loop_pc, cycle,
                 old_fresh, opened_this_cycle>>

\* open_position: self.open_positions[symbol] = position, then the fee
OpenInsert(k) ==
  LET o == tasks[k].suggestion
  IN /\ tasks[k].pc = "insert"
     /\ SetSim(open_insert(Sim, new_position(k[1], o.side, o.price, o.quantity,
                                             o.stop_loss, o.take_profit, clock + 1)))
     /\ clock' = clock + 1
     /\ SetTask(k, Ended(k))
     /\ opened_this_cycle' = IF k[2] = "cur" \/ k[1] \in old_fresh
                             THEN opened_this_cycle \cup {k[1]}
                             ELSE opened_this_cycle \ {k[1]}
     /\ UNCHANGED <<lifeVars, extVars, ret, status_price, futures, loop_pc, cycle, old_fresh>>

\* _monitoring_loop: future.result(timeout=30) returns
WaitDone ==
  /\ loop_pc = "wait"
  /\ futures # <<>>
  /\ tasks[<<Head(futures), "cur">>].pc = "done"
  /\ SetTask(<<Head(futures), "cur">>, NoTask)
  /\ futures' = Tail(futures)
  /\ UNCHANGED <<lifeVars, extVars, simVars, clock, ret, status_price, loop_pc, cycle, old_fresh,
                 opened_this_cycle>>

\* _monitoring_loop: future.result(timeout=30) raises TimeoutError; the
\* task is not cancelled and keeps running
WaitTimeout ==
  LET s == Head(futures)
  IN /\ loop_pc = "wait"
     /\ futures # <<>>
     /\ Busy(tasks[<<s, "cur">>])
     /\ ~Busy(tasks[<<s, "old">>])
     /\ Cardinality(Stragglers) < MaxStragglers
     /\ tasks' = [tasks EXCEPT ![<<s, "old">>] = tasks[<<s, "cur">>],
                               ![<<s, "cur">>] = NoTask]
     /\ futures' = Tail(futures)
     /\ old_fresh' = old_fresh \cup {s}
     /\ UNCHANGED <<lifeVars, extVars, simVars, clock, ret, status_price, loop_pc, cycle,
                    opened_this_cycle>>

\* _update_pnl_simulator: the prices of the symbols with an open position
status_market_data ==
  [s \in {x \in Keys(open_positions) : status_price[x] # 0} |-> status_price[s]]

\* _monitoring_loop: self._update_pnl_simulator()
UpdatePnl ==
  /\ loop_pc = "wait"
  /\ futures = <<>>
  /\ IF DOMAIN status_market_data # {}
     THEN SetSim(update_positions(Sim, status_market_data, clock))
     ELSE UNCHANGED simVars
  /\ loop_pc' = "sleep"
  /\ opened_this_cycle' = opened_this_cycle \cap Keys(open_positions')
  /\ UNCHANGED <<lifeVars, extVars, clock, ret, status_price, tasks, futures, cycle, old_fresh>>

\* _monitoring_loop: the statistics, the sleep, the next turn of the loop
NextCycle ==
  /\ loop_pc = "sleep"
  /\ loop_pc' = "submit"
  /\ UNCHANGED <<lifeVars, extVars, simVars, clock, ret, status_price, tasks, futures, cycle,
                 old_fresh, opened_this_cycle>>

Next ==
  \/ Submit
  \/ \E k \in TaskKeys, candle \in Candles,
        tm_value \in TmValues, tm_color \in TmColors,
        squeeze_color \in SqueezeColors :
       Observe(k, candle.open, candle.close, tm_value, tm_color, squeeze_color)
  \/ \E k \in TaskKeys : ObserveFails(k)
  \/ \E k \in TaskKeys : OpenChecks(k)
  \/ \E k \in TaskKeys : OpenInsert(k)
  \/ WaitDone
  \/ WaitTimeout
  \/ UpdatePnl
  \/ NextCycle

Spec == Init /\ [][Next]_vars

(***************************************************************************)
(* The life cycle of the monitor and the error policy of the symbols.      *)
(* SpecLife starts from the constructed, stopped monitor.  One caller      *)
(* makes start_monitoring and stop_monitoring calls, one after the other;  *)
(* the monitoring loop thread and the tasks run beside it.  The tasks of   *)
(* this specification find no signal (no position is opened); they end     *)
(* with success or with an exception.  Time is counted in ticks.           *)
(* _handle_symbol_error runs in the thread that caught the failure, without*)
(* a lock: its read of error_counts[symbol] and its write are two steps.   *)
(***************************************************************************)
\* self.max_errors_per_symbol
max_errors_per_symbol == 5
\* self.error_reset_time (30 minutes), in ticks
ErrorResetTicks == 2
\* self.monitor_thread.join(timeout=10), in ticks
JoinTimeoutTicks == 1
\* no failure happens to a symbol whose error count is MaxErrorCount
MaxErrorCount == 6

\* the symbols of the monitor in SpecLife, in the order of submission
LifeSymbols == {"S1"}
LifeFutures == <<"S1">>
LifeKeys == LifeSymbols \X {"cur", "old"}

Err == [sym_state |-> sym_state, error_counts |-> error_counts, err_age |-> err_age]

SetErr(es) ==
  /\ sym_state' = es.sym_state
  /\ error_counts' = es.error_counts
  /\ err_age' = es.err_age

\* _process_symbol: symbol_status.state = SymbolState.ACTIVE
process_begin(es, symbol) == [es EXCEPT !.sym_state[symbol] = "ACTIVE"]

\* _process_symbol, last statement: self.error_counts[symbol] = 0
process_success(es, symbol) == [es EXCEPT !.error_counts[symbol] = 0]

\* _handle_symbol_error after self.error_counts.get(symbol, 0) gave read
handle_symbol_error(es, symbol, read) ==
  LET n == read + 1
  IN [sym_state |-> IF n >= max_errors_per_symbol
                    THEN [es.sym_state EXCEPT ![symbol] = "ERROR"]
                    ELSE es.sym_state,
      error_counts |-> [es.error_counts EXCEPT ![symbol] = n],
      err_age |-> [es.err_age EXCEPT ![symbol] = 0]]

\* statistics that never reset an error count or re-activate a symbol
update_monitoring_stats_no_reset(es) == es

\* _update_monitoring_stats: the reset of the symbols without a recent error
update_monitoring_stats(es) ==
  LET stale(s) == es.err_age[s] > ErrorResetTicks
  IN [sym_state |-> [s \in Symbols |->
                       IF stale(s) /\ es.sym_state[s] = "ERROR" THEN "ACTIVE"
                       ELSE es.sym_state[s]],
      error_counts |-> [s \in Symbols |->
                          IF stale(s) THEN 0 ELSE es.error_counts[s]],
      err_age |-> es.err_age]

\* stop_monitoring: every symbol_status.state = SymbolState.INACTIVE
all_inactive(es) == [es EXCEPT !.sym_state = [s \in Symbols |-> "INACTIVE"]]

MonIdle ==
  /\ status_price = [s \in Symbols |-> 0]
  /\ tasks = [k \in TaskKeys |-> NoTask]
  /\ futures = <<>>
  /\ loop_pc = "none"
  /\ cycle = 0
  /\ old_fresh = {}
  /\ opened_this_cycle = {}

InitLife == SimInit /\ MonIdle /\ LifeInit /\ ExtInit

lifeFrame == <<simVars, clock, ret, status_price, cycle, old_fresh, opened_this_cycle,
               extVars>>

\* start_monitoring up to the connectivity test.  The caller calls it when
\* no loop thread of an earlier start is left (or while monitoring is active).
StartBegin ==
  /\ caller_pc = "idle"
  /\ monitoring_active \/ loop_pc = "none"
  /\ IF monitoring_active
     THEN /\ call_ret' = [op |-> "start", val |-> FALSE]
          /\ UNCHANGED <<mon_state, caller_pc>>
     ELSE /\ mon_state' = "STARTING"
          /\ caller_pc' = "start_check"
          /\ UNCHANGED call_ret
  /\ UNCHANGED <<monitoring_active, join_wait, errVars, tasks, futures, loop_pc,
                 lifeFrame>>

\* start_monitoring: test_connectivity() is True; the flag and RUNNING are set
StartConnected ==
  /\ caller_pc = "start_check"
  /\ monitoring_active' = TRUE
  /\ mon_state' = "RUNNING"
  /\ caller_pc' = "start_thread"
  /\ UNCHANGED <<call_ret, join_wait, errVars, tasks, futures, loop_pc, lifeFrame>>

\* start_monitoring: the loop thread is started, the call returns True
StartThread ==
  /\ caller_pc = "start_thread"
  /\ loop_pc' = "submit"
  /\ caller_pc' = "idle"
  /\ call_ret' = [op |-> "start", val |-> TRUE]
  /\ UNCHANGED <<mon_state, monitoring_active, join_wait, errVars, tasks, futures,
                 lifeFrame>>

\* start_monitoring: monitor_thread.start() raises (no thread can be
\* started); the except clause sets ERROR and the call returns False
StartThreadFails ==
  /\ caller_pc = "start_thread"
  /\ mon_state' = "ERROR"
  /\ caller_pc' = "idle"
  /\ call_ret' = [op |-> "start", val |-> FALSE]
  /\ UNCHANGED <<monitoring_active, join_wait, errVars, tasks, futures, loop_pc,
                 lifeFrame>>

\* a failed connectivity test that returns False and leaves the state as it is
StartConnectFails_keeps_state ==
  /\ caller_pc = "start_check"
  /\ caller_pc' = "idle"
  /\ call_ret' = [op |-> "start", val |-> FALSE]
  /\ UNCHANGED <<mon_state, monitoring_active, join_wait, errVars, tasks, futures,
                 loop_pc, lifeFrame>>

\* start_monitoring: test_connectivity() is False
StartConnectFails ==
  /\ caller_pc = "start_check"
  /\ mon_state' = "ERROR"
  /\ caller_pc' = "idle"
  /\ call_ret' = [op |-> "start", val |-> FALSE]
  /\ UNCHANGED <<monitoring_active, join_wait, errVars, tasks, futures, loop_pc,
                 lifeFrame>>

\* a stop_monitoring without the test of monitoring_active
StopBegin_unguarded ==
  /\ caller_pc = "idle"
  /\ mon_state' = "SHUTTING_DOWN"
  /\ monitoring_active' = FALSE
  /\ caller_pc' = "stop_join"
  /\ join_wait' = 0
  /\ UNCHANGED <<call_ret, errVars, tasks, futures, loop_pc, lifeFrame>>

\* stop_monitoring up to monitor_thread.join(timeout=10)
StopBegin ==
  /\ caller_pc = "idle"
  /\ IF ~monitoring_active
     THEN /\ call_ret' = [op |-> "stop", val |-> FALSE]
          /\ UNCHANGED <<mon_state, monitoring_active, caller_pc, join_wait>>
     ELSE /\ mon_state' = "SHUTTING_DOWN"
          /\ monitoring_active' = FALSE
          /\ caller_pc' = "stop_join"
          /\ join_wait' = 0
          /\ UNCHANGED call_ret
  /\ UNCHANGED <<errVars, tasks, futures, loop_pc, lifeFrame>>

\* stop_monitoring after the join: the symbols, the state, the result
StopFinish ==
  /\ SetErr(all_inactive(Err))
  /\ mon_state' = "STOPPED"
  /\ caller_pc' = "idle"
  /\ call_ret' = [op |-> "stop", val |-> TRUE]
  /\ join_wait' = 0
  /\ UNCHANGED <<monitoring_active, handler_read, tasks, futures, loop_pc,
                 lifeFrame>>

\* a join without a timeout
join_returns_when_ended(waited, alive) == ~alive

\* threading.Thread.join(timeout): the call returns when the thread has ended
\* or when the timeout has passed
join_returns(waited, alive) == ~alive \/ waited >= JoinTimeoutTicks

\* the join returns because the loop thread has ended
StopJoinDone ==
  /\ caller_pc = "stop_join"
  /\ loop_pc = "none"
  /\ StopFinish

\* the join returns because its timeout has passed; the thread is alive
StopJoinTimeout ==
  /\ caller_pc = "stop_join"
  /\ loop_pc # "none"
  /\ join_returns(join_wait, TRUE)
  /\ StopFinish

\* time passes: the ages of the last errors grow
Tick ==
  /\ err_age' = [s \in Symbols |->
                   IF err_age[s] < 0 \/ err_age[s] > ErrorResetTicks THEN err_age[s]
                   ELSE err_age[s] + 1]
  /\ \E s \in Symbols : err_age'[s] # err_age[s]
  /\ UNCHANGED <<callVars, sym_state, error_counts, handler_read, tasks,
                 futures, loop_pc, lifeFrame>>

\* time passes for the caller blocked in monitor_thread.join(timeout=10)
JoinTick ==
  /\ caller_pc = "stop_join"
  /\ ~join_returns(join_wait, loop_pc # "none")
  /\ join_wait <= JoinTimeoutTicks
  /\ join_wait' = join_wait + 1
  /\ UNCHANGED <<mon_state, monitoring_active, caller_pc, call_ret, errVars,
                 tasks, futures, loop_pc, lifeFrame>>

\* _monitoring_loop: while self.monitoring_active is False, the thread ends
LoopExit ==
  /\ loop_pc = "submit"
  /\ ~monitoring_active
  /\ loop_pc' = "none"
  /\ UNCHANGED <<callVars, errVars, tasks, futures, lifeFrame>>

\* _monitoring_loop: submit _process_symbol for every active symbol
LifeSubmit ==
  /\ loop_pc = "submit"
  /\ monitoring_active
  /\ tasks' = [k \in TaskKeys |->
                IF k \in LifeKeys /\ k[2] = "cur"
                THEN [pc |-> "start", suggestion |-> NoSuggestion]
                ELSE tasks[k]]
  /\ futures' = LifeFutures
  /\ loop_pc' = "wait"
  /\ UNCHANGED <<callVars, errVars, lifeFrame>>

\* _process_symbol: the symbol is set ACTIVE, the fetch begins
TaskBegin(k) ==
  /\ tasks[k].pc = "start"
  /\ SetErr(process_begin(Err, k[1]))
  /\ SetTask(k, [tasks[k] EXCEPT !.pc = "run"])
  /\ UNCHANGED <<callVars, handler_read, futures, loop_pc, lifeFrame>>

\* _process_symbol runs to its end: the error count is reset
TaskSucceeds(k) ==
  /\ tasks[k].pc = "run"
  /\ SetErr(process_success(Err, k[1]))
  /\ SetTask(k, Ended(k))
  /\ UNCHANGED <<callVars, handler_read, futures, loop_pc, lifeFrame>>

\* _process_symbol raises (no market data, ...): its own except clause calls
\* _handle_symbol_error, which reads the error count
TaskRaises(k) ==
  /\ tasks[k].pc = "run"
  /\ error_counts[k[1]] < MaxErrorCount
  /\ handler_read' = [handler_read EXCEPT ![k] = error_counts[k[1]]]
  /\ SetTask(k, [tasks[k] EXCEPT !.pc = "except"])
  /\ UNCHANGED <<callVars, sym_state, error_counts, err_age, futures, loop_pc,
                 lifeFrame>>

\* _handle_symbol_error in the task: the writes; the task returns
TaskRecords(k) ==
  /\ tasks[k].pc = "except"
  /\ SetErr(handle_symbol_error(Err, k[1], handler_read[k]))
  /\ handler_read' = [handler_read EXCEPT ![k] = -1]
  /\ SetTask(k, Ended(k))
  /\ UNCHANGED <<callVars, futures, loop_pc, lifeFrame>>

\* _monitoring_loop: future.result(timeout=30) returns
LifeWaitDone ==
  /\ loop_pc = "wait"
  /\ futures # <<>>
  /\ tasks[<<Head(futures), "cur">>].pc = "done"
  /\ SetTask(<<Head(futures), "cur">>, NoTask)
  /\ futures' = Tail(futures)
  /\ UNCHANGED <<callVars, errVars, loop_pc, lifeFrame>>

\* a loop without the except clause around future.result: the TimeoutError
\* reaches the outer handler, which skips the rest of the cycle
LifeWaitTimeout_uncaught ==
  /\ loop_pc = "wait"
  /\ futures # <<>>
  /\ Busy(tasks[<<Head(futures), "cur">>])
  /\ ~Busy(tasks[<<Head(futures), "old">>])
  /\ Cardinality(Stragglers) < MaxStragglers
  /\ tasks' = [tasks EXCEPT ![<<Head(futures), "old">>] = tasks[<<Head(futures), "cur">>],
                            ![<<Head(futures), "cur">>] = NoTask]
  /\ handler_read' = [handler_read EXCEPT
                        ![<<Head(futures), "old">>] = handler_read[<<Head(futures), "cur">>],
                        ![<<Head(futures), "cur">>] = -1]
  /\ futures' = <<>>
  /\ loop_pc' = "sleep"
  /\ UNCHANGED <<callVars, sym_state, error_counts, err_age, lifeFrame>>

\* _monitoring_loop: future.result(timeout=30) raises TimeoutError, the except
\* clause calls _handle_symbol_error, which reads the error count; the task
\* keeps running
LifeWaitTimeout ==
  /\ loop_pc = "wait"
  /\ futures # <<>>
  /\ Busy(tasks[<<Head(futures), "cur">>])
  /\ ~Busy(tasks[<<Head(futures), "old">>])
  /\ Cardinality(Stragglers) < MaxStragglers
  /\ error_counts[Head(futures)] < MaxErrorCount
  /\ tasks' = [tasks EXCEPT ![<<Head(futures), "old">>] = tasks[<<Head(futures), "cur">>],
                            ![<<Head(futures), "cur">>] = NoTask]
  /\ handler_read' = [handler_read EXCEPT
                        ![<<Head(futures), "old">>] = handler_read[<<Head(futures), "cur">>],
                        ![<<Head(futures), "cur">>] = -1,
                        ![<<Head(futures), "loop">>] = error_counts[Head(futures)]]
  /\ loop_pc' = "handle"
  /\ UNCHANGED <<callVars, sym_state, error_counts, err_age, futures, lifeFrame>>

\* _handle_symbol_error in the loop: the writes; on to the next future
LifeTimeoutRecords ==
  /\ loop_pc = "handle"
  /\ SetErr(handle_symbol_error(Err, Head(futures), handler_read[<<Head(futures), "loop">>]))
  /\ handler_read' = [handler_read EXCEPT ![<<Head(futures), "loop">>] = -1]
  /\ futures' = Tail(futures)
  /\ loop_pc' = "wait"
  /\ UNCHANGED <<callVars, tasks, lifeFrame>>

\* _monitoring_loop: self._update_pnl_simulator() (no position is open here)
LifeUpdate ==
  /\ loop_pc = "wait"
  /\ futures = <<>>
  /\ loop_pc' = "stats"
  /\ UNCHANGED <<callVars, errVars, tasks, futures, lifeFrame>>

\* _monitoring_loop: self._update_monitoring_stats()
LifeStats ==
  /\ loop_pc = "stats"
  /\ SetErr(update_monitoring_stats(Err))
  /\ loop_pc' = "sleep"
  /\ UNCHANGED <<callVars, handler_read, tasks, futures, lifeFrame>>

\* _monitoring_loop: time.sleep(sleep_time) returns, back to the while test
LifeWake ==
  /\ loop_pc = "sleep"
  /\ loop_pc' = "submit"
  /\ UNCHANGED <<callVars, errVars, tasks, futures, lifeFrame>>

LoopStep ==
  \/ LoopExit
  \/ LifeSubmit
  \/ LifeWaitDone
  \/ LifeTimeoutRecords
  \/ LifeUpdate
  \/ LifeStats
  \/ LifeWake

TaskStep(k) == TaskBegin(k) \/ TaskSucceeds(k) \/ TaskRecords(k)

CallStep ==
  \/ StartConnected
  \/ StartConnectFails
  \/ StartThread
  \/ StartThreadFails
  \/ StopJoinDone
  \/ StopJoinTimeout

NextLife ==
  \/ StartBegin
  \/ StartConnected
  \/ StartConnectFails
  \/ StartThread
  \/ StartThreadFails
  \/ StopBegin
  \/ StopJoinDone
  \/ StopJoinTimeout
  \/ Tick
  \/ JoinTick
  \/ LoopExit
  \/ LifeSubmit
  \/ \E k \in LifeKeys : TaskBegin(k)
  \/ \E k \in LifeKeys : TaskSucceeds(k)
  \/ \E k \in LifeKeys : TaskRaises(k)
  \/ \E k \in LifeKeys : TaskRecords(k)
  \/ LifeWaitDone
  \/ LifeWaitTimeout
  \/ LifeTimeoutRecords
  \/ LifeUpdate
  \/ LifeStats
  \/ LifeWake

\* the threads run and time passes: the loop thread takes its next step, a
\* task ends, a call in progress returns.  Nothing obliges the caller to call,
\* a task to fail or a wait to time out.
FairLife ==
  /\ WF_vars(LoopStep)
  /\ \A k \in LifeKeys : WF_vars(TaskStep(k))
  /\ WF_vars(CallStep)
  /\ WF_vars(Tick)
  /\ WF_vars(JoinTick)

SpecLife == InitLife /\ [][NextLife]_vars /\ FairLife

(***************************************************************************)
(* The signal latch of one symbol: _process_symbol stores the indicator    *)
(* colours in the symbol's status, re-validates the latched signal, reads  *)
(* the colours back, fetches the candles a second time and latches a       *)
(* fresh signal.  Tasks of two cycles share the status (SpecSignal).       *)
(***************************************************************************)
\* _process_symbol: "Check if existing signal is still valid"
signal_still_valid(latest, color, momentum_color) ==
  \/ latest = "LONG" /\ color = "BLUE" /\ momentum_color \in {"MAROON", "LIME"}
  \/ latest = "SHORT" /\ color = "RED" /\ momentum_color \in {"GREEN", "RED"}

\* _process_symbol: "Clear signal if no longer valid"
revalidate(latest, color, momentum_color) ==
  IF latest # "None" /\ ~signal_still_valid(latest, color, momentum_color)
  THEN "None" ELSE latest

SigTask(pc) == [pc |-> pc, suggestion |-> NoSuggestion]

sigFrame == <<simVars, clock, ret, status_price, cycle, old_fresh, opened_this_cycle,
              lifeVars, cacheVars, rateVars, moreVars>>

\* _monitoring_loop: submit _process_symbol for the symbol
SigSubmit ==
  /\ loop_pc = "submit"
  /\ tasks' = [k \in TaskKeys |->
                IF k \in LifeKeys /\ k[2] = "cur" THEN SigTask("start") ELSE tasks[k]]
  /\ task_colors' = [k \in TaskKeys |->
                IF k \in LifeKeys /\ k[2] = "cur" THEN NoColors ELSE task_colors[k]]
  /\ futures' = LifeFutures
  /\ loop_pc' = "wait"
  /\ UNCHANGED <<sigFrame, trend_magic_color, squeeze_status, latest_signal_type>>

\* _process_symbol: trend_magic_v3 and squeeze_momentum gave results; the
\* colours are stored and the latched signal is re-validated
SigIndicators(k, color, momentum_color) ==
  /\ tasks[k].pc = "start"
  /\ trend_magic_color' = [trend_magic_color EXCEPT ![k[1]] = color]
  /\ squeeze_status' = [squeeze_status EXCEPT ![k[1]] = momentum_color]
  /\ latest_signal_type' =
       [latest_signal_type EXCEPT
          ![k[1]] = revalidate(latest_signal_type[k[1]], color, momentum_color)]
  /\ task_colors' = [task_colors EXCEPT ![k].computed = TRUE]
  /\ SetTask(k, SigTask("read"))
  /\ UNCHANGED <<sigFrame, futures, loop_pc>>

\* _process_symbol: the indicator analysis failed or gave no result; the
\* status keeps what it had
SigIndicatorsFail(k) ==
  /\ tasks[k].pc = "start"
  /\ SetTask(k, SigTask("read"))
  /\ UNCHANGED <<sigFrame, futures, loop_pc, sigVars>>

\* _process_symbol: "Use data already calculated above", the colours are
\* read back from the status; without colours there is no detection
SigReadColors(k) ==
  LET tm_color == trend_magic_color[k[1]]
      squeeze_color == squeeze_status[k[1]]
  IN /\ tasks[k].pc = "read"
     /\ task_colors' = [task_colors EXCEPT ![k].tm_color = tm_color,
                                           ![k].squeeze_color = squeeze_color]
     /\ IF tm_color # "None" /\ squeeze_color # "None"
        THEN SetTask(k, SigTask("detect"))
        ELSE SetTask(k, Ended(k))
     /\ UNCHANGED <<sigFrame, futures, loop_pc, trend_magic_color, squeeze_status,
                    latest_signal_type>>

\* _process_symbol: after the second fetch_market_data, the signal
\* conditions on the colours read before it; a detected signal is latched
SigDetect(k, open_price, current_price, tm_value) ==
  LET signal_detected == detect_signal(open_price, current_price, tm_value,
                                       task_colors[k].tm_color,
                                       task_colors[k].squeeze_color)
  IN /\ tasks[k].pc = "detect"
     /\ latest_signal_type' =
          IF signal_detected # "NONE"
          THEN [latest_signal_type EXCEPT ![k[1]] = signal_detected]
          ELSE latest_signal_type
     /\ SetTask(k, Ended(k))
     /\ UNCHANGED <<sigFrame, futures, loop_pc, trend_magic_color, squeeze_status,
                    task_colors>>

\* _monitoring_loop: future.result(timeout=30) returns
SigWaitDone ==
  /\ loop_pc = "wait"
  /\ futures # <<>>
  /\ tasks[<<Head(futures), "cur">>].pc = "done"
  /\ SetTask(<<Head(futures), "cur">>, NoTask)
  /\ futures' = Tail(futures)
  /\ UNCHANGED <<sigFrame, loop_pc, sigVars>>

\* _monitoring_loop: future.result(timeout=30) raises TimeoutError; the
\* task is not cancelled and keeps running with its locals
SigWaitTimeout ==
  LET s == Head(futures)
  IN /\ loop_pc = "wait"
     /\ futures # <<>>
     /\ Busy(tasks[<<s, "cur">>])
     /\ ~Busy(tasks[<<s, "old">>])
     /\ Cardinality(Stragglers) < MaxStragglers
     /\ tasks' = [tasks EXCEPT ![<<s, "old">>] = tasks[<<s, "cur">>],
                               ![<<s, "cur">>] = NoTask]
     /\ task_colors' = [task_colors EXCEPT ![<<s, "old">>] = task_colors[<<s, "cur">>],
                                           ![<<s, "cur">>] = NoColors]
     /\ futures' = Tail(futures)
     /\ UNCHANGED <<sigFrame, loop_pc, trend_magic_color, squeeze_status,
                    latest_signal_type>>

\* _monitoring_loop: the sleep and the next turn of the loop
SigNextCycle ==
  /\ loop_pc = "wait"
  /\ futures = <<>>
  /\ loop_pc' = "submit"
  /\ UNCHANGED <<sigFrame, tasks, futures, sigVars>>

NextSignal ==
  \/ SigSubmit
  \/ \E k \in LifeKeys, color \in TmColors, momentum_color \in SqueezeColors :
       SigIndicators(k, color, momentum_color)
  \/ \E k \in LifeKeys : SigIndicatorsFail(k)
  \/ \E k \in LifeKeys : SigReadColors(k)
  \/ \E k \in LifeKeys, c \in Candles, tm_value \in TmValues :
       SigDetect(k, c.open, c.close, tm_value)
  \/ SigWaitDone
  \/ SigWaitTimeout
  \/ SigNextCycle

SpecSignal == Init /\ [][NextSignal]_vars

(***************************************************************************)
(* The candle cache: DataCache keeps an OrderedDict of CacheEntry under    *)
(* the keys of DataRequest.get_cache_key, least recently used first, and   *)
(* a byte counter.  Every operation runs under the cache's lock, so each   *)
(* is one step (SpecCache).  Time is counted in seconds, sizes in bytes.   *)
(* The counters hits, misses and evictions are not followed.               *)
(***************************************************************************)
\* the moments at which the cache is used: two in the first minute, the
\* third in another minute, when an entry of the first moment has expired
\* and one of the second has not
ClockValues == {0, 50, 310}
EpochMinutes == 50000
SecondsPerMinute == 60
\* DataCache(max_size_mb=1, default_ttl=300); DataRequest.cache_timeout = 300
max_size_mb == 1
default_ttl == 300
default_cache_timeout == 300
\* put(request, data, ttl): 0 stands for no ttl given
Ttls == {0}

\* strings are sequences of characters, so that "symbol in key" can be asked
BTCUSDT == <<"B", "T", "C", "U", "S", "D", "T">>
ETHUSDT == <<"E", "T", "H", "U", "S", "D", "T">>
tf5m == <<"5", "m">>
tf15m == <<"1", "5", "m">>
NoTimeframe == <<>>          \* invalidate(symbol): timeframe is None

CacheSymbols == {BTCUSDT, ETHUSDT}
CacheTimeframes == {tf5m, tf15m}
\* the symbols and timeframes the callers ask for
CacheTargets == {<<BTCUSDT, tf5m>>, <<BTCUSDT, tf15m>>, <<ETHUSDT, tf5m>>}
Limits == {100}

\* DataRequest._get_timeframe_minutes
get_timeframe_minutes(tf) ==
  IF tf = tf5m THEN 5 ELSE IF tf = tf15m THEN 15 ELSE 60

\* decimal digits of n, most significant first
RECURSIVE Str(_)
Str(n) ==
  LET d == <<"0", "1", "2", "3", "4", "5", "6", "7", "8", "9">>[(n % 10) + 1]
  IN IF n < 10 THEN <<d>> ELSE Append(Str(n \div 10), d)

\* datetime.strftime('%Y%m%d_%H%M'): the minute of t, the seconds dropped;
\* minutes are counted from EpochMinutes before second 0
strftime(t) == Str(EpochMinutes + (t \div SecondsPerMinute))

\* DataRequest(symbol, timeframe, limit, ...) constructed at time now:
\* __post_init__ sets end_time to now and start_time limit periods back
DataRequest(symbol, tf, limit, use_cache, cache_timeout, force_refresh, now) ==
  [symbol |-> symbol, timeframe |-> tf, limit |-> limit,
   end_time |-> now,
   start_time |-> now - get_timeframe_minutes(tf) * limit * SecondsPerMinute,
   use_cache |-> use_cache, cache_timeout |-> cache_timeout,
   force_refresh |-> force_refresh]

\* DataRequest.get_cache_key
get_cache_key(request) ==
  request.symbol \o <<"_">> \o request.timeframe \o <<"_">>
    \o strftime(request.start_time) \o <<"_">> \o strftime(request.end_time)
    \o <<"_">> \o Str(request.limit)

\* Python's "a in b" on strings
IsIn(a, b) ==
  \E i \in 0..(Len(b) - Len(a)) : SubSeq(b, i + 1, i + Len(a)) = a

\* the series a fetch may return, with the size pickle gives them
SeriesA == [id |-> "a", size |-> 300000]
SeriesB == [id |-> "b", size |-> 400000]
Series == {SeriesA, SeriesB}

\* CacheEntry._calculate_size
calculate_size(data) == data.size

\* CacheEntry.__init__, with the key it is stored under
CacheEntry(key, data, ttl_seconds, now) ==
  [key |-> key, data |-> data, created_at |-> now, expires_at |-> now + ttl_seconds,
   size_bytes |-> calculate_size(data)]

\* CacheEntry.is_expired
is_expired(entry, now) == now > entry.expires_at

\* CacheEntry.is_stale
is_stale(entry, max_age_seconds, now) == now - entry.created_at > max_age_seconds

\* DataCache.__init__: self.max_size_bytes
max_size_bytes == max_size_mb * 1024 * 1024

\* the cache as a value: the OrderedDict and the byte counter
Cache == [cache |-> cache, current_size_bytes |-> current_size_bytes]

SetCache(c) ==
  /\ cache' = c.cache
  /\ current_size_bytes' = c.current_size_bytes

\* key in self._cache
HasKey(c, key) == \E i \in 1..Len(c.cache) : c.cache[i].key = key

\* self._cache[key]
EntryOf(c, key) == c.cache[CHOOSE i \in 1..Len(c.cache) : c.cache[i].key = key]

\* a removal that pops the entry and leaves the byte counter as it was
remove_entry_uncounted(c, key) ==
  IF HasKey(c, key)
  THEN [cache |-> SelectSeq(c.cache, LAMBDA e : e.key # key),
        current_size_bytes |-> c.current_size_bytes]
  ELSE c

\* DataCache._remove_entry
remove_entry(c, key) ==
  IF HasKey(c, key)
  THEN [cache |-> SelectSeq(c.cache, LAMBDA e : e.key # key),
        current_size_bytes |-> c.current_size_bytes - EntryOf(c, key).size_bytes]
  ELSE c

\* an eviction that drops the most recently used key first
RECURSIVE evict_mru(_)
evict_mru(c) ==
  IF 5 * c.current_size_bytes > 4 * max_size_bytes /\ c.cache # <<>>
  THEN evict_mru(remove_entry(c, c.cache[Len(c.cache)].key))
  ELSE c

\* DataCache._evict_lru: while over 80 % of the limit, drop the oldest key
RECURSIVE evict_lru(_)
evict_lru(c) ==
  IF 5 * c.current_size_bytes > 4 * max_size_bytes /\ c.cache # <<>>
  THEN evict_lru(remove_entry(c, Head(c.cache).key))
  ELSE c

\* DataCache._ensure_capacity
ensure_capacity(c, new_entry_size) ==
  IF c.current_size_bytes + new_entry_size > max_size_bytes THEN evict_lru(c) ELSE c

\* a put that leaves an entry already stored under the key as it is
put_keeps_old(c, request, data, ttl, now) ==
  IF ~request.use_cache THEN c
  ELSE LET key == get_cache_key(request)
           entry == CacheEntry(key, data, IF ttl # 0 THEN ttl ELSE default_ttl, now)
           c1 == ensure_capacity(c, entry.size_bytes)
       IN IF HasKey(c1, key) THEN c1
          ELSE [cache |-> Append(c1.cache, entry),
                current_size_bytes |-> c1.current_size_bytes + entry.size_bytes]

\* DataCache.put; ttl 0 stands for None ("ttl or self.default_ttl")
put(c, request, data, ttl, now) ==
  IF ~request.use_cache THEN c
  ELSE LET key == get_cache_key(request)
           entry == CacheEntry(key, data, IF ttl # 0 THEN ttl ELSE default_ttl, now)
           c1 == ensure_capacity(c, entry.size_bytes)
           c2 == IF HasKey(c1, key) THEN remove_entry(c1, key) ELSE c1
       IN [cache |-> Append(c2.cache, entry),
           current_size_bytes |-> c2.current_size_bytes + entry.size_bytes]

\* OrderedDict.move_to_end
move_to_end(c, key) ==
  [c EXCEPT !.cache = Append(SelectSeq(c.cache, LAMBDA e : e.key # key), EntryOf(c, key))]

\* a get that does not look at the age of the entry
get_any_age(c, request, now) ==
  LET key == get_cache_key(request)
      miss(c1) == [c |-> c1, val |-> None]
  IN IF ~request.use_cache THEN miss(c)
     ELSE IF ~HasKey(c, key) THEN miss(c)
     ELSE IF is_expired(EntryOf(c, key), now) THEN miss(remove_entry(c, key))
     ELSE IF request.force_refresh THEN miss(remove_entry(c, key))
     ELSE [c |-> move_to_end(c, key), val |-> EntryOf(c, key).data]

\* DataCache.get: the cache afterwards and the value returned
get(c, request, now) ==
  LET key == get_cache_key(request)
      miss(c1) == [c |-> c1, val |-> None]
  IN IF ~request.use_cache THEN miss(c)
     ELSE IF ~HasKey(c, key) THEN miss(c)
     ELSE IF is_expired(EntryOf(c, key), now) THEN miss(remove_entry(c, key))
     ELSE IF request.force_refresh THEN miss(remove_entry(c, key))
     ELSE IF is_stale(EntryOf(c, key), request.cache_timeout, now)
          THEN miss(remove_entry(c, key))
     ELSE [c |-> move_to_end(c, key), val |-> EntryOf(c, key).data]

\* _remove_entry for every key of a list
RECURSIVE remove_all(_, _)
remove_all(c, keys) ==
  IF keys = {} THEN c
  ELSE LET key == CHOOSE k \in keys : TRUE
       IN remove_all(remove_entry(c, key), keys \ {key})

\* DataCache.invalidate
invalidate(c, symbol, tf) ==
  LET keys_to_remove ==
        {c.cache[i].key : i \in {j \in 1..Len(c.cache) :
            /\ IsIn(symbol, c.cache[j].key)
            /\ (tf = NoTimeframe \/ IsIn(tf, c.cache[j].key))}}
  IN remove_all(c, keys_to_remove)

\* a sweep that finds no entry expired
cleanup_finds_none(c, now) == c

\* DataCache._cleanup_expired
cleanup_expired(c, now) ==
  remove_all(c, {c.cache[i].key : i \in {j \in 1..Len(c.cache) :
                                           is_expired(c.cache[j], now)}})

\* what a caller may pass: options of a request
RequestOptions ==
  {[use_cache |-> TRUE, cache_timeout |-> default_cache_timeout, force_refresh |-> FALSE],
   [use_cache |-> TRUE, cache_timeout |-> 60, force_refresh |-> FALSE],
   [use_cache |-> TRUE, cache_timeout |-> 2 * default_cache_timeout, force_refresh |-> FALSE],
   [use_cache |-> TRUE, cache_timeout |-> default_cache_timeout, force_refresh |-> TRUE],
   [use_cache |-> FALSE, cache_timeout |-> default_cache_timeout, force_refresh |-> FALSE]}

\* a request is constructed when it is used, or was constructed earlier
Requests ==
  {DataRequest(x[1], x[2], l, o.use_cache, o.cache_timeout, o.force_refresh, t) :
     x \in CacheTargets, l \in Limits, o \in RequestOptions,
     t \in {u \in ClockValues : u <= clock}}

\* put looks at use_cache only: the requests that differ in it
PutRequests ==
  {r \in Requests : r.cache_timeout = default_cache_timeout /\ ~r.force_refresh}

\* the entries of before that are gone after: what the operation added to
\* self.evictions
removed(before, after) ==
  Cardinality({i \in 1..Len(before) : \A j \in 1..Len(after) : after[j] # before[i]})

cacheFrame == <<simVars, ret, monVars, lifeVars, sigVars, rateVars, moreVars>>

\* DataCache.put(request, data): the provider passes no ttl
CachePut(request, data, ttl) ==
  /\ SetCache(put(Cache, request, data, ttl, clock))
  /\ cache_ret' = [op |-> "put", val |-> None, removed |-> removed(cache, cache')]
  /\ UNCHANGED <<cacheFrame, clock>>

\* DataCache.get(request)
CacheGet(request) ==
  LET r == get(Cache, request, clock)
  IN /\ SetCache(r.c)
     /\ cache_ret' = [op |-> "get", val |-> r.val, removed |-> removed(cache, cache')]
     /\ UNCHANGED <<cacheFrame, clock>>

\* DataCache.invalidate(symbol, timeframe)
CacheInvalidate(symbol, tf) ==
  /\ SetCache(invalidate(Cache, symbol, tf))
  /\ cache_ret' = [op |-> "invalidate", val |-> None, removed |-> removed(cache, cache')]
  /\ UNCHANGED <<cacheFrame, clock>>

\* cleanup_worker: one sweep of the janitor thread
CacheCleanup ==
  /\ SetCache(cleanup_expired(Cache, clock))
  /\ cache_ret' = [op |-> "cleanup", val |-> None, removed |-> removed(cache, cache')]
  /\ UNCHANGED <<cacheFrame, clock>>

\* time passes, up to the next moment the cache is used
CacheTick ==
  /\ \E t \in ClockValues : t > clock
  /\ clock' = CHOOSE t \in ClockValues :
                 t > clock /\ \A u \in ClockValues : u > clock => t <= u
  /\ UNCHANGED <<cacheFrame, cacheVars>>

NextCache ==
  \/ \E request \in PutRequests, data \in Series, ttl \in Ttls :
       CachePut(request, data, ttl)
  \/ \E request \in Requests : CacheGet(request)
  \/ \E symbol \in CacheSymbols, tf \in CacheTimeframes \cup {NoTimeframe} :
       CacheInvalidate(symbol, tf)
  \/ CacheCleanup
  \/ CacheTick

SpecCache == Init /\ [][NextCache]_vars

(***************************************************************************)
(* The rate limiter of the exchange client: _make_request calls            *)
(* _check_rate_limit and then sends the request.  _check_rate_limit takes  *)
(* no lock; its statements are the steps of the callers, which run in the  *)
(* scheduler's thread pool (SpecRate).  The budgets and the window are     *)
(* scaled down: the code has 1200 requests and 6000 weight per 60 seconds. *)
(***************************************************************************)
rateFrame == <<simVars, ret, monVars, lifeVars, sigVars, cacheVars, moreVars>>

SetCaller(t, c) == callers' = [callers EXCEPT ![t] = c]

\* sum(w for _, w in usage)
RECURSIVE sum_weight(_)
sum_weight(usage) ==
  IF usage = <<>> THEN 0 ELSE Head(usage).w + sum_weight(Tail(usage))

\* _make_request: a caller enters _check_rate_limit, now = time.time()
RateCall(t, weight) ==
  /\ callers[t].pc = "idle"
  /\ calls < MaxCalls
  /\ calls' = calls + 1
  /\ SetCaller(t, [NoCaller EXCEPT !.pc = "clean_ts", !.now = clock, !.weight = weight])
  /\ UNCHANGED <<rateFrame, clock, request_timestamps, weight_usage, issued>>

\* [ts for ts in self.request_timestamps if ts > cutoff]
RateFilterTimestamps(t) ==
  LET c == callers[t]
  IN /\ c.pc = "clean_ts"
     /\ SetCaller(t, [c EXCEPT !.pc = "store_ts",
                        !.tmp = SelectSeq(request_timestamps,
                                          LAMBDA ts : ts > c.now - WindowTicks)])
     /\ UNCHANGED <<rateFrame, clock, request_timestamps, weight_usage, issued, calls>>

\* self.request_timestamps = ...
RateStoreTimestamps(t) ==
  LET c == callers[t]
  IN /\ c.pc = "store_ts"
     /\ request_timestamps' = c.tmp
     /\ SetCaller(t, [c EXCEPT !.pc = "clean_w", !.tmp = <<>>])
     /\ UNCHANGED <<rateFrame, clock, weight_usage, issued, calls>>

\* [(ts, w) for ts, w in self.weight_usage if ts > cutoff]
RateFilterWeights(t) ==
  LET c == callers[t]
  IN /\ c.pc = "clean_w"
     /\ SetCaller(t, [c EXCEPT !.pc = "store_w",
                        !.tmp = SelectSeq(weight_usage,
                                          LAMBDA u : u.ts > c.now - WindowTicks)])
     /\ UNCHANGED <<rateFrame, clock, request_timestamps, weight_usage, issued, calls>>

\* self.weight_usage = ...
RateStoreWeights(t) ==
  LET c == callers[t]
  IN /\ c.pc = "store_w"
     /\ weight_usage' = c.tmp
     /\ SetCaller(t, [c EXCEPT !.pc = "check_count", !.tmp = <<>>])
     /\ UNCHANGED <<rateFrame, clock, request_timestamps, issued, calls>>

\* if len(self.request_timestamps) >= self.rate_limit_requests_per_minute
RateCheckCount(t) ==
  LET c == callers[t]
  IN /\ c.pc = "check_count"
     /\ SetCaller(t, [c EXCEPT !.pc =
          IF Len(request_timestamps) >= rate_limit_requests_per_minute
          THEN "count_sleep_time" ELSE "check_weight"])
     /\ UNCHANGED <<rateFrame, clock, request_timestamps, weight_usage, issued, calls>>

\* where a caller goes with a sleep time computed from the oldest entry:
\* time.sleep if it is positive; an empty list raises IndexError
after_sleep_time(c, oldest, empty, sleeping, onward) ==
  IF empty THEN [c EXCEPT !.pc = "raised"]
  ELSE IF WindowTicks - (c.now - oldest) > 0
       THEN [c EXCEPT !.pc = sleeping, !.waited = TRUE,
                      !.wake = clock + (WindowTicks - (c.now - oldest))]
       ELSE [c EXCEPT !.pc = onward]

\* sleep_time = 60 - (now - self.request_timestamps[0]); time.sleep(sleep_time)
RateCountSleepTime(t) ==
  LET c == callers[t]
  IN /\ c.pc = "count_sleep_time"
     /\ SetCaller(t, after_sleep_time(c,
                        IF request_timestamps = <<>> THEN 0 ELSE Head(request_timestamps),
                        request_timestamps = <<>>, "count_sleep", "check_weight"))
     /\ UNCHANGED <<rateFrame, clock, request_timestamps, weight_usage, issued, calls>>

\* time.sleep returns
RateCountWake(t) ==
  LET c == callers[t]
  IN /\ c.pc = "count_sleep"
     /\ clock >= c.wake
     /\ SetCaller(t, [c EXCEPT !.pc = "check_weight"])
     /\ UNCHANGED <<rateFrame, clock, request_timestamps, weight_usage, issued, calls>>

\* if current_weight + weight > self.rate_limit_weight_per_minute
RateCheckWeight(t) ==
  LET c == callers[t]
  IN /\ c.pc = "check_weight"
     /\ SetCaller(t, [c EXCEPT !.pc =
          IF sum_weight(weight_usage) + c.weight > rate_limit_weight_per_minute
          THEN "weight_sleep_time" ELSE "record_ts"])
     /\ UNCHANGED <<rateFrame, clock, request_timestamps, weight_usage, issued, calls>>

\* sleep_time = 60 - (now - self.weight_usage[0][0]); time.sleep(sleep_time)
RateWeightSleepTime(t) ==
  LET c == callers[t]
  IN /\ c.pc = "weight_sleep_time"
     /\ SetCaller(t, after_sleep_time(c,
                        IF weight_usage = <<>> THEN 0 ELSE Head(weight_usage).ts,
                        weight_usage = <<>>, "weight_sleep", "record_ts"))
     /\ UNCHANGED <<rateFrame, clock, request_timestamps, weight_usage, issued, calls>>

\* time.sleep returns
RateWeightWake(t) ==
  LET c == callers[t]
  IN /\ c.pc = "weight_sleep"
     /\ clock >= c.wake
     /\ SetCaller(t, [c EXCEPT !.pc = "record_ts"])
     /\ UNCHANGED <<rateFrame, clock, request_timestamps, weight_usage, issued, calls>>

\* self.request_timestamps.append(now)
RateRecordTimestamp(t) ==
  LET c == callers[t]
  IN /\ c.pc = "record_ts"
     /\ request_timestamps' = Append(request_timestamps, c.now)
     /\ SetCaller(t, [c EXCEPT !.pc = "record_w"])
     /\ UNCHANGED <<rateFrame, clock, weight_usage, issued, calls>>

\* self.weight_usage.append((now, weight))
RateRecordWeight(t) ==
  LET c == callers[t]
  IN /\ c.pc = "record_w"
     /\ weight_usage' = Append(weight_usage, [ts |-> c.now, w |-> c.weight])
     /\ SetCaller(t, [c EXCEPT !.pc = "request"])
     /\ UNCHANGED <<rateFrame, clock, request_timestamps, issued, calls>>

\* the requests sent within the window that ends now
in_window(sent, now) == SelectSeq(sent, LAMBDA u : u.ts > now - WindowTicks)

\* _make_request: self.session.get(url, ...), the request goes out
RateRequest(t) ==
  LET c == callers[t]
  IN /\ c.pc = "request"
     /\ issued' = Append(in_window(issued, clock), [ts |-> clock, w |-> c.weight])
     /\ SetCaller(t, NoCaller)
     /\ UNCHANGED <<rateFrame, clock, request_timestamps, weight_usage, calls>>

\* a caller sleeps and has not slept long enough
Sleeping(t) ==
  callers[t].pc \in {"count_sleep", "weight_sleep"} /\ clock < callers[t].wake

\* time passes: while calls are made, and as long as a caller sleeps; the
\* statements between time.time() and the request take no time
RateTick ==
  /\ \A t \in Callers : callers[t].pc \in {"idle", "count_sleep", "weight_sleep", "raised"}
  /\ clock < MaxRateClock \/ \E t \in Callers : Sleeping(t)
  /\ clock' = clock + 1
  /\ issued' = in_window(issued, clock + 1)
  /\ UNCHANGED <<rateFrame, request_timestamps, weight_usage, callers, calls>>

CallerStep(t) ==
  \/ RateFilterTimestamps(t)
  \/ RateStoreTimestamps(t)
  \/ RateFilterWeights(t)
  \/ RateStoreWeights(t)
  \/ RateCheckCount(t)
  \/ RateCountSleepTime(t)
  \/ RateCountWake(t)
  \/ RateCheckWeight(t)
  \/ RateWeightSleepTime(t)
  \/ RateWeightWake(t)
  \/ RateRecordTimestamp(t)
  \/ RateRecordWeight(t)
  \/ RateRequest(t)

NextRate ==
  \/ \E t \in Callers, weight \in Weights : RateCall(t, weight)
  \/ \E t \in Callers : CallerStep(t)
  \/ RateTick

\* the threads of the pool run, and time passes
FairRate ==
  /\ \A t \in Callers : WF_vars(CallerStep(t))
  /\ WF_vars(RateTick)

SpecRate == Init /\ [][NextRate]_vars /\ FairRate

(***************************************************************************)
(* One _process_symbol call from its first statement to its last, with the *)
(* candle fetch of MarketDataProvider.get_klines inside it, and the        *)
(* administrative calls pause_symbol and resume_symbol (SpecProcess).      *)
(* The monitoring loop submits _process_symbol for every symbol of         *)
(* active_symbols without looking at the symbol's state.  The cache        *)
(* lookup of get_klines is a hit or a miss (SpecCache follows the cache),  *)
(* the rate limiter lets the request through (SpecRate follows it).  The   *)
(* HTTP session retries by urllib3's Retry: max_retries counts the retries *)
(* after the first attempt, for the statuses of status_forcelist and for   *)
(* connection errors.                                                      *)
(***************************************************************************)
\* Retry(total=3, ...)
total == 3
\* Retry(status_forcelist=[429, 500, 502, 503, 504]); "conn" is a connection
\* error or a timeout, which urllib3 retries as well
status_forcelist == {"429", "500", "502", "503", "504"}
\* what the exchange answers to GET /api/v3/klines: the candles, unknown
\* symbol (HTTP 400, code -1121), a status of the forcelist, no answer
Statuses == {"200", "400", "429", "500", "conn"}
ProcSymbols == {"S1"}

procFrame == <<monVars, callVars, handler_read, sigVars, cacheVars, rateVars, ret,
               persistVars, loopsVars, lateVars>>

\* pause_symbol(symbol)
ProcPause(s) ==
  /\ s \in ProcSymbols
  /\ sym_state' = [sym_state EXCEPT ![s] = "PAUSED"]
  /\ paused' = paused \cup {s}
  /\ UNCHANGED <<procFrame, simVars, clock, error_counts, err_age, proc>>

\* resume_symbol(symbol)
ProcResume(s) ==
  /\ s \in paused
  /\ sym_state' = [sym_state EXCEPT ![s] = "ACTIVE"]
  /\ error_counts' = [error_counts EXCEPT ![s] = 0]
  /\ paused' = paused \ {s}
  /\ UNCHANGED <<procFrame, simVars, clock, err_age, proc>>

\* _monitoring_loop submits _process_symbol(symbol); the task sets the
\* symbol ACTIVE and builds the DataRequest
ProcBegin(s) ==
  /\ proc.pc = "idle"
  /\ s \in ProcSymbols
  /\ error_counts[s] < MaxErrorCount
  /\ SetErr(process_begin(Err, s))
  /\ proc' = [NoProc EXCEPT !.pc = "cache", !.symbol = s]
  /\ UNCHANGED <<procFrame, simVars, clock, paused>>

\* get_klines: self.cache.get(request) returns the cached series
FetchCacheHit ==
  /\ proc.pc = "cache"
  /\ proc' = [proc EXCEPT !.pc = "analyze", !.data = "cached"]
  /\ UNCHANGED <<procFrame, simVars, clock, errVars, paused>>

\* get_klines: no cached series
FetchCacheMiss ==
  /\ proc.pc = "cache"
  /\ proc' = [proc EXCEPT !.pc = "client"]
  /\ UNCHANGED <<procFrame, simVars, clock, errVars, paused>>

\* get_klines: RobotBinance(...) raises, or client.get_historical_data, a
\* method RobotBinance does not have, raises AttributeError: "trying direct
\* API", _make_request with the session's retries
FetchRobotFails ==
  /\ proc.pc = "client"
  /\ proc' = [proc EXCEPT !.pc = "direct", !.retries = total]
  /\ UNCHANGED <<procFrame, simVars, clock, errVars, paused>>

\* what an attempt with the given answer leads to: the candles, a retry, or
\* an exception (RetryError, ConnectionError, HTTPError), which get_klines
\* turns into None
after_attempt(p, status) ==
  LET q == [p EXCEPT !.attempts = @ + 1, !.status = status]
  IN IF status = "200"
     THEN [q EXCEPT !.pc = "analyze", !.data = "fetched"]
     ELSE IF (status \in status_forcelist \/ status = "conn") /\ p.retries > 0
          THEN [q EXCEPT !.retries = @ - 1]
          ELSE [q EXCEPT !.pc = "failed", !.data = "None"]

\* self.session.get(url, params=params, timeout=30): one attempt
FetchAttempt(status) ==
  /\ proc.pc = "direct"
  /\ proc' = after_attempt(proc, status)
  /\ UNCHANGED <<procFrame, simVars, clock, errVars, paused>>

\* _process_symbol: get_klines gave None, "No market data available" is
\* raised and handled by _handle_symbol_error
ProcNoData ==
  /\ proc.pc = "failed"
  /\ SetErr(handle_symbol_error(Err, proc.symbol, error_counts[proc.symbol]))
  /\ proc' = NoProc
  /\ UNCHANGED <<procFrame, simVars, clock, paused>>

\* _process_symbol with market data: the indicator colours are stored, the
\* latched signal is re-validated, the signal conditions are tested, a
\* detected signal is latched and its order suggestion opens a position if
\* open_position accepts it; the error count is reset
ProcAnalyze(candle, tm_value, color, momentum_color) ==
  LET s == proc.symbol
      signal_detected == detect_signal(candle.open, candle.close, tm_value,
                                       color, momentum_color)
      o == generate_order_suggestion(signal_detected, candle.close, tm_value,
                                     timeframe)
      opens == /\ o # NoSuggestion
               /\ can_open_position(open_positions)
               /\ open_accepts(open_positions, s)
  IN /\ proc.pc = "analyze"
     /\ trend_magic_color' = [trend_magic_color EXCEPT ![s] = color]
     /\ squeeze_status' = [squeeze_status EXCEPT ![s] = momentum_color]
     /\ latest_signal_type' =
          [latest_signal_type EXCEPT
             ![s] = IF signal_detected # "NONE" THEN signal_detected
                    ELSE revalidate(latest_signal_type[s], color, momentum_color)]
     /\ status_price' = [status_price EXCEPT ![s] = candle.close]
     /\ IF opens
        THEN /\ SetSim(open_insert(Sim, new_position(s, o.side, o.price, o.quantity,
                                                     o.stop_loss, o.take_profit,
                                                     clock + 1)))
             /\ clock' = clock + 1
        ELSE UNCHANGED <<simVars, clock>>
     /\ SetErr(process_success(Err, s))
     /\ proc' = NoProc
     /\ UNCHANGED <<tasks, futures, loop_pc, cycle, old_fresh, opened_this_cycle,
                    callVars, handler_read, task_colors, cacheVars, rateVars, ret,
                    paused, persistVars, loopsVars, lateVars>>

\* _process_symbol with market data whose indicator analysis raises: the
\* exception is logged only, nothing is detected, the error count is reset
ProcAnalyzeFails ==
  /\ proc.pc = "analyze"
  /\ SetErr(process_success(Err, proc.symbol))
  /\ proc' = NoProc
  /\ UNCHANGED <<procFrame, simVars, clock, paused>>

NextProcess ==
  \/ \E s \in ProcSymbols : ProcPause(s) \/ ProcResume(s) \/ ProcBegin(s)
  \/ FetchCacheHit
  \/ FetchCacheMiss
  \/ FetchRobotFails
  \/ \E status \in Statuses : FetchAttempt(status)
  \/ ProcNoData
  \/ \E candle \in Candles, tm_value \in TmValues, color \in TmColors,
        momentum_color \in {"LIME", "GREEN"} :
       ProcAnalyze(candle, tm_value, color, momentum_color)
  \/ ProcAnalyzeFails

SpecProcess == Init /\ [][NextProcess]_vars

(***************************************************************************)
(* The simulator with its trade log (SpecPersist): close_position hands    *)
(* every closed trade to SQLiteTradeLogger.log_trade, which inserts a row  *)
(* into the trades table.  The write can fail (database locked, disk full, *)
(* file removed); log_trade also divides by the position value, so the     *)
(* trade of a position of quantity 0 is never written.                     *)
(***************************************************************************)
\* log_trade without its except clause: a failed write is raised
log_trade_raises(db, closed_trade, write_ok) ==
  LET position_value == closed_trade.entry_price * closed_trade.quantity
      saved == position_value # 0 /\ write_ok
  IN [db |-> IF saved THEN Append(db, closed_trade) ELSE db,
      logged |-> saved,
      raised |-> ~saved]

\* log_trade: the row is inserted and True returned, or the exception is
\* caught, logged and False returned; nothing is raised to the caller
log_trade(db, closed_trade, write_ok) ==
  LET position_value == closed_trade.entry_price * closed_trade.quantity
      saved == position_value # 0 /\ write_ok
  IN [db |-> IF saved THEN Append(db, closed_trade) ELSE db,
      logged |-> saved,
      raised |-> FALSE]

\* close_position with the trade log: the statistics are updated, the trade
\* is logged, the position is deleted; an exception out of log_trade would
\* be caught by close_position before the deletion
close_position_logged(st, db, symbol, exit_price, reason, now, write_ok) ==
  IF ~Contains(st.open_positions, symbol)
  THEN [st |-> st, db |-> db, logs |-> <<>>]
  ELSE LET trade == close_trade(Get(st.open_positions, symbol), exit_price,
                                reason, now)
           closed == close_position(st, symbol, exit_price, reason, now)
           r == log_trade(db, trade, write_ok)
       IN [st |-> IF r.raised
                  THEN [closed EXCEPT !.open_positions = st.open_positions]
                  ELSE closed,
           db |-> r.db,
           logs |-> <<r.logged>>]

\* update_positions with the trade log: the writes of this call succeed or fail
RECURSIVE close_all_logged(_, _, _, _)
close_all_logged(r, todo, now, write_ok) ==
  IF todo = <<>> THEN r
  ELSE LET c == close_position_logged(r.st, r.db, Head(todo).symbol,
                                      Head(todo).price, Head(todo).reason, now,
                                      write_ok)
       IN close_all_logged([c EXCEPT !.logs = r.logs \o c.logs], Tail(todo), now,
                           write_ok)

persistFrame == <<monVars, lifeVars, sigVars, cacheVars, rateVars, procVars,
                  loopsVars, lateVars>>

\* PnLSimulator.close_position(symbol, exit_price)  (reason MANUAL)
PersistClose(symbol, exit_price, write_ok) ==
  LET r == close_position_logged(Sim, db_trades, symbol, exit_price, "MANUAL",
                                 clock, write_ok)
  IN /\ SetSim(r.st)
     /\ db_trades' = r.db
     /\ last_log' = r.logs
     /\ ret' = [NoCall EXCEPT !.op = "close", !.symbol = symbol,
                              !.val = Contains(open_positions, symbol)]
     /\ UNCHANGED <<clock, persistFrame>>

\* PnLSimulator.update_positions(market_data)
PersistUpdate(market_data, write_ok) ==
  LET todo == positions_to_close(open_positions, market_data)
      r == close_all_logged([st |-> Sim, db |-> db_trades, logs |-> <<>>], todo,
                            clock, write_ok)
  IN /\ SetSim(r.st)
     /\ db_trades' = r.db
     /\ last_log' = r.logs
     /\ ret' = [NoCall EXCEPT !.op = "update", !.closed = Len(todo)]
     /\ UNCHANGED <<clock, persistFrame>>

\* the symbols traded in SpecPersist and the price maps over them
PersistSymbols == {"S1", "S2"}
PersistPriceMaps == UNION {[D -> ApiPrices] : D \in SUBSET PersistSymbols}

NextPersist ==
  \/ \E symbol \in PersistSymbols, o \in ApiOrders :
       ApiOpen(symbol, o.side, 100, o.quantity, o.stop_loss, o.take_profit)
  \/ \E symbol \in PersistSymbols, write_ok \in BOOLEAN :
       PersistClose(symbol, 100, write_ok)
  \/ \E market_data \in PersistPriceMaps, write_ok \in BOOLEAN :
       PersistUpdate(market_data, write_ok)

SpecPersist == Init /\ [][NextPersist]_vars

(***************************************************************************)
(* The monitoring-loop threads of successive start_monitoring calls        *)
(* (SpecLoops).  SpecLife follows one loop thread with the work of its     *)
(* cycle and lets the caller start only when no earlier thread is left;    *)
(* here the caller calls start_monitoring and stop_monitoring whenever it  *)
(* is idle, and a cycle is one step.  stop_monitoring waits for the thread *)
(* of the last start for at most 10 s (JoinTimeoutTicks); the loop sleeps  *)
(* max(1, 60 - processing_time) seconds between cycles (up to SleepTicks). *)
(***************************************************************************)
\* time.sleep(sleep_time): the longest sleep between two cycles, in ticks
SleepTicks == 2

loopsFrame == <<simVars, clock, ret, monVars, errVars, sigVars, cacheVars, rateVars,
                procVars, persistVars, lateVars>>

\* thread.is_alive(); None is no thread
Alive(l) == l \in LoopIds /\ loops[l].pc # "none"

\* start_monitoring: threading.Thread(target=self._monitoring_loop).start(),
\* the call returns True
LoopsStartThread(l) ==
  /\ caller_pc = "start_thread"
  /\ ~Alive(l)
  /\ loops' = [loops EXCEPT ![l] = [pc |-> "test", left |-> 0]]
  /\ monitor_thread' = l
  /\ caller_pc' = "idle"
  /\ call_ret' = [op |-> "start", val |-> TRUE]
  /\ UNCHANGED <<mon_state, monitoring_active, join_wait, loopsFrame>>

\* stop_monitoring: "if self.monitor_thread and self.monitor_thread.is_alive()"
\* is false, or the join returns because the thread has ended
LoopsJoinDone ==
  /\ caller_pc = "stop_join"
  /\ ~Alive(monitor_thread)
  /\ StopFinish

\* stop_monitoring: the join returns because its timeout has passed
LoopsJoinTimeout ==
  /\ caller_pc = "stop_join"
  /\ Alive(monitor_thread)
  /\ join_returns(join_wait, TRUE)
  /\ StopFinish

\* _monitoring_loop: "while self.monitoring_active"
LoopTest(l) ==
  /\ loops[l].pc = "test"
  /\ loops' = [loops EXCEPT ![l].pc = IF monitoring_active THEN "cycle" ELSE "none"]
  /\ UNCHANGED <<callVars, monitor_thread, loopsFrame>>

\* _monitoring_loop: one cycle (submit, wait, update), then time.sleep
LoopCycle(l, sleep_time) ==
  /\ loops[l].pc = "cycle"
  /\ loops' = [loops EXCEPT ![l] = [pc |-> "sleep", left |-> sleep_time]]
  /\ UNCHANGED <<callVars, monitor_thread, loopsFrame>>

\* _monitoring_loop: time.sleep returns
LoopWake(l) ==
  /\ loops[l].pc = "sleep"
  /\ loops[l].left = 0
  /\ loops' = [loops EXCEPT ![l].pc = "test"]
  /\ UNCHANGED <<callVars, monitor_thread, loopsFrame>>

\* time passes for the sleeping loops and for a caller blocked in the join
LoopsTick ==
  /\ \A l \in LoopIds : loops[l].pc = "sleep" => loops[l].left > 0
  /\ caller_pc = "stop_join" =>
       /\ Alive(monitor_thread)
       /\ ~join_returns(join_wait, TRUE)
  /\ \/ caller_pc = "stop_join"
     \/ \E l \in LoopIds : loops[l].pc = "sleep"
  /\ join_wait' = IF caller_pc = "stop_join" THEN join_wait + 1 ELSE join_wait
  /\ loops' = [l \in LoopIds |->
                 IF loops[l].pc = "sleep" THEN [loops[l] EXCEPT !.left = @ - 1]
                 ELSE loops[l]]
  /\ UNCHANGED <<mon_state, monitoring_active, caller_pc, call_ret, monitor_thread,
                 loopsFrame>>

NextLoops ==
  \/ StartBegin
  \/ StartConnected
  \/ StartConnectFails
  \/ \E l \in LoopIds : LoopsStartThread(l)
  \/ StartThreadFails
  \/ StopBegin
  \/ LoopsJoinDone
  \/ LoopsJoinTimeout
  \/ \E l \in LoopIds : LoopTest(l)
  \/ \E l \in LoopIds, sleep_time \in 1..SleepTicks : LoopCycle(l, sleep_time)
  \/ \E l \in LoopIds : LoopWake(l)
  \/ LoopsTick

SpecLoops == InitLife /\ [][NextLoops]_vars

(***************************************************************************)
(* SpecJanitor: the cache with its cleanup thread over time.  cleanup_worker *)
(* sweeps, sleeps _cleanup_interval seconds and tests _stop_cleanup again;  *)
(* every operation on the cache holds self._lock, so each is one step.  Time *)
(* advances in steps of TickSeconds; a sweep is short against a step, and   *)
(* the thread wakes when its sleep is over.                                 *)
(***************************************************************************)
\* self._cleanup_interval = 60
cleanup_interval == 60
\* a third of the janitor's period
TickSeconds == cleanup_interval \div 3
MaxJanitorClock == 120
JanitorTimes == {t \in 0..MaxJanitorClock : t % TickSeconds = 0}
\* put(request, data, ttl) with a ttl shorter than the janitor's period
JanitorTtls == {20, 40}

\* the requests of one symbol and timeframe, constructed now or earlier
JanitorRequests ==
  {DataRequest(BTCUSDT, tf5m, l, TRUE, default_cache_timeout, FALSE, t) :
     l \in Limits, t \in {u \in JanitorTimes : u <= clock}}

\* DataCache.clear
clear(c) == [cache |-> <<>>, current_size_bytes |-> 0]

janitorFrame == <<simVars, ret, monVars, lifeVars, sigVars, rateVars, procVars,
                  persistVars, loopsVars, trendVars>>

\* cleanup_worker: "while not self._stop_cleanup", the flag is clear
JanitorTest ==
  /\ janitor.pc = "test"
  /\ ~stop_cleanup
  /\ janitor' = [janitor EXCEPT !.pc = "sweep"]
  /\ UNCHANGED <<janitorFrame, clock, cacheVars, stop_cleanup>>

\* cleanup_worker: the flag is set, the thread ends
JanitorExit ==
  /\ janitor.pc = "test"
  /\ stop_cleanup
  /\ janitor' = [janitor EXCEPT !.pc = "exited"]
  /\ UNCHANGED <<janitorFrame, clock, cacheVars, stop_cleanup>>

\* cleanup_worker: self._cleanup_expired(), then time.sleep begins
JanitorSweep ==
  /\ janitor.pc = "sweep"
  /\ SetCache(cleanup_expired(Cache, clock))
  /\ cache_ret' = [op |-> "cleanup", val |-> None, removed |-> removed(cache, cache')]
  /\ janitor' = [pc |-> "sleep", wake |-> clock + cleanup_interval]
  /\ UNCHANGED <<janitorFrame, clock, stop_cleanup>>

\* cleanup_worker: time.sleep(self._cleanup_interval) returns
JanitorWake ==
  /\ janitor.pc = "sleep"
  /\ clock >= janitor.wake
  /\ janitor' = [janitor EXCEPT !.pc = "test"]
  /\ UNCHANGED <<janitorFrame, clock, cacheVars, stop_cleanup>>

\* DataCache.clear()
JanitorClear ==
  /\ SetCache(clear(Cache))
  /\ cache_ret' = [op |-> "clear", val |-> None, removed |-> removed(cache, cache')]
  /\ UNCHANGED <<janitorFrame, clock, janitorVars>>

\* DataCache.shutdown(): the flag, the join of at most 5 s, clear()
JanitorShutdown ==
  /\ ~stop_cleanup
  /\ stop_cleanup' = TRUE
  /\ SetCache(clear(Cache))
  /\ cache_ret' = [op |-> "shutdown", val |-> None, removed |-> removed(cache, cache')]
  /\ UNCHANGED <<janitorFrame, clock, janitor>>

\* time passes; the thread is not late for its wake time, and neither the
\* test of the flag nor a sweep lasts a step
JanitorTick ==
  /\ clock < MaxJanitorClock
  /\ janitor.pc \in {"sleep", "exited"}
  /\ janitor.pc = "sleep" => clock < janitor.wake
  /\ clock' = clock + TickSeconds
  /\ UNCHANGED <<janitorFrame, cacheVars, janitorVars>>

NextJanitor ==
  \/ \E request \in {r \in JanitorRequests : r.end_time = clock},
          data \in Series, ttl \in JanitorTtls :
       CachePut(request, data, ttl)
  \/ \E request \in JanitorRequests : CacheGet(request)
  \/ \E tf \in {tf5m, NoTimeframe} : CacheInvalidate(BTCUSDT, tf)
  \/ JanitorTest
  \/ JanitorExit
  \/ JanitorSweep
  \/ JanitorWake
  \/ JanitorClear
  \/ JanitorShutdown
  \/ JanitorTick

SpecJanitor == Init /\ [][NextJanitor]_vars

(***************************************************************************)
(* SpecTrend: TechnicalAnalyzer.trend_magic_v3 over the candles fetched so  *)
(* far.  talib.CCI and talib.ATR are the library's: their values are inputs *)
(* of the bar, nan where the library has too few candles.                   *)
(***************************************************************************)
\* np.nan; every comparison with it is false
NaN == -1000
isnan(x) == x = NaN
\* coeff: float = 1.0
coeff == 1
MaxBars == 3
\* low and high of a candle
BarPrices == {[low |-> 10, high |-> 11], [low |-> 12, high |-> 13]}
CciValues == {NaN, -1, 0, 1}
AtrValues == {NaN, 1}
Bars == {[low |-> p.low, high |-> p.high, cci |-> c, atr |-> a] :
           p \in BarPrices, c \in CciValues, a \in AtrValues}

\* up = low - atr * coeff
up(bar) == IF isnan(bar.atr) THEN NaN ELSE bar.low - bar.atr * coeff
\* down = high + atr * coeff
down(bar) == IF isnan(bar.atr) THEN NaN ELSE bar.high + bar.atr * coeff

\* Python's max(a, b): b only if b > a
py_max(a, b) == IF ~isnan(a) /\ ~isnan(b) /\ b > a THEN b ELSE a
\* Python's min(a, b): b only if b < a
py_min(a, b) == IF ~isnan(a) /\ ~isnan(b) /\ b < a THEN b ELSE a

\* a loop body that takes the band of the bar wherever there is one
magic_step_band(i, bar, prev) ==
  IF ~isnan(bar.cci) /\ bar.cci >= 0
  THEN IF ~isnan(up(bar)) THEN up(bar) ELSE IF i > 0 THEN prev ELSE NaN
  ELSE IF ~isnan(down(bar)) THEN down(bar) ELSE IF i > 0 THEN prev ELSE NaN

\* the body of "for i in range(len(data))": magic_trend.iloc[i], with
\* prev = magic_trend.iloc[i - 1]
magic_step(i, bar, prev) ==
  IF ~isnan(bar.cci) /\ bar.cci >= 0
  THEN IF ~isnan(up(bar))
       THEN IF i = 0 THEN up(bar) ELSE py_max(up(bar), prev)
       ELSE IF i > 0 THEN prev ELSE NaN
  ELSE IF ~isnan(down(bar))
       THEN IF i = 0 THEN down(bar) ELSE py_min(down(bar), prev)
       ELSE IF i > 0 THEN prev ELSE NaN

\* the loop over the first n candles
RECURSIVE magic_upto(_, _)
magic_upto(df, n) ==
  IF n = 0 THEN <<>>
  ELSE LET m == magic_upto(df, n - 1)
       IN Append(m, magic_step(n - 1, df[n], IF n > 1 THEN m[n - 1] ELSE NaN))

\* TechnicalAnalyzer.trend_magic_v3: the series magic_trend
trend_magic_v3(df) == magic_upto(df, Len(df))

trendFrame == <<simVars, clock, ret, monVars, lifeVars, sigVars, cacheVars, rateVars,
                procVars, persistVars, loopsVars, janitorVars>>

\* fetch_market_data: self.df has one more candle
TrendFetch(bar) ==
  /\ Len(bars) < MaxBars
  /\ bars' = Append(bars, bar)
  /\ UNCHANGED <<trendFrame, magic_trend>>

\* trend_magic_v3() on the candles of self.df
TrendMagic ==
  /\ bars # <<>>
  /\ magic_trend' = trend_magic_v3(bars)
  /\ UNCHANGED <<trendFrame, bars>>

NextTrend ==
  \/ \E bar \in Bars : TrendFetch(bar)
  \/ TrendMagic

SpecTrend == Init /\ [][NextTrend]_vars

(***************************************************************************)
(* Properties                                                              *)
(***************************************************************************)
\* what the bracket rule of the specification asks of a price
StopHit(position, price) ==
  IF position.side = "LONG" THEN price <= position.stop_loss
  ELSE price >= position.stop_loss

TargetHit(position, price) ==
  IF position.side = "LONG" THEN price >= position.take_profit
  ELSE price <= position.take_profit

\* the same position (a position is one symbol opened at one time)
SamePosition(a, b) == a.symbol = b.symbol /\ a.entry_time = b.entry_time

IsOpenIn(d, position) == \E i \in 1..Len(d) : d[i] = position

\* the trades of `after` that `before` does not have yet
NewTrades(before, after) ==
  {after.closed_trades[i] :
     i \in (Len(before.closed_trades) + 1)..Len(after.closed_trades)}

RECURSIVE SumRealPnl(_)
SumRealPnl(trades) ==
  IF trades = <<>> THEN 0 ELSE Head(trades).real_pnl + SumRealPnl(Tail(trades))

\* C1: in every reachable state the number of open positions is at most
\* maxPositions, whatever the interleaving of the tasks that open positions
\* with the loop's update.
C1_AtMostMaxPositions == Len(open_positions) <= MAX_OPEN_POSITIONS

\* C2: a symbol has at most one open position, and no step replaces the open
\* position of a symbol by another one: a symbol that has an open position
\* before and after a step has the same position.
C2_NeverReplaced ==
  [][/\ \A i, j \in 1..Len(open_positions') :
          open_positions'[i].symbol = open_positions'[j].symbol => i = j
     /\ \A i \in 1..Len(open_positions), j \in 1..Len(open_positions') :
          open_positions[i].symbol = open_positions'[j].symbol
            => open_positions'[j] = open_positions[i]]_vars

\* C3: after update_positions(market_data), an open position whose symbol is
\* priced has been closed exactly when the price breaches its bracket
\* (boundaries included), at that price and with a reason whose condition
\* holds; a position whose symbol is not priced stays open unchanged.
C3_UpdateClosesOnBreach ==
  \A market_data \in PriceMaps :
    LET after == update_positions(Sim, market_data, clock)
    IN \A i \in 1..Len(open_positions) :
         LET position == open_positions[i]
             trades == {t \in NewTrades(Sim, after) : SamePosition(t, position)}
         IN IF position.symbol \in DOMAIN market_data
            THEN LET price == market_data[position.symbol]
                 IN IF StopHit(position, price) \/ TargetHit(position, price)
                    THEN /\ ~Contains(after.open_positions, position.symbol)
                         /\ Cardinality(trades) = 1
                         /\ \A t \in trades :
                              /\ t.exit_price = price
                              /\ t.close_reason \in {"STOP_LOSS", "TAKE_PROFIT"}
                              /\ t.close_reason = "STOP_LOSS" => StopHit(position, price)
                              /\ t.close_reason = "TAKE_PROFIT" => TargetHit(position, price)
                    ELSE IsOpenIn(after.open_positions, position) /\ trades = {}
            ELSE IsOpenIn(after.open_positions, position) /\ trades = {}

\* C3 witness: an update has closed a LONG position exactly at its
\* take-profit price and has left another position open.
C3_Witness ==
  /\ ret.op = "update"
  /\ Len(open_positions) > 0
  /\ \E i \in 1..Len(closed_trades) :
       /\ closed_trades[i].side = "LONG"
       /\ closed_trades[i].close_reason = "TAKE_PROFIT"
       /\ closed_trades[i].exit_price = closed_trades[i].take_profit

\* C4: when one price satisfies both the stop-loss and the take-profit
\* condition of a position, update_positions closes it with STOP_LOSS.
C4_StopLossFirst ==
  \A market_data \in PriceMaps :
    LET after == update_positions(Sim, market_data, clock)
    IN \A i \in 1..Len(open_positions) :
         LET position == open_positions[i]
         IN (/\ position.symbol \in DOMAIN market_data
             /\ StopHit(position, market_data[position.symbol])
             /\ TargetHit(position, market_data[position.symbol]))
            => /\ ~Contains(after.open_positions, position.symbol)
               /\ \E t \in NewTrades(Sim, after) :
                    SamePosition(t, position) /\ t.close_reason = "STOP_LOSS"
               /\ \A t \in NewTrades(Sim, after) :
                    SamePosition(t, position) => t.close_reason = "STOP_LOSS"

\* C4 witness: an update has closed, with STOP_LOSS, a position at a price
\* that meets its take-profit condition as well.
C4_Witness ==
  /\ ret.op = "update"
  /\ \E i \in 1..Len(closed_trades) :
       LET t == closed_trades[i]
       IN /\ t.close_reason = "STOP_LOSS"
          /\ StopHit(t, t.exit_price)
          /\ TargetHit(t, t.exit_price)

C6_RejectLeavesState ==
  [][(/\ ret'.op = "open"
      /\ \/ Len(open_positions) >= MAX_OPEN_POSITIONS
         \/ Contains(open_positions, ret'.symbol))
     => (ret'.val = FALSE /\ UNCHANGED simVars)]_vars

\* C6 witness: a call for a symbol that has an open position, made while
\* there was room for another position, has returned False.
C6_Witness ==
  /\ ret.op = "open"
  /\ ret.val = FALSE
  /\ Contains(open_positions, ret.symbol)
  /\ Len(open_positions) < MAX_OPEN_POSITIONS

\* C7: open_position returns False when quantity <= 0, and no open position
\* has a quantity <= 0.
C7_RejectsNonPositiveQuantity ==
  /\ (ret.op = "open" /\ ret.quantity <= 0) => ret.val = FALSE
  /\ \A i \in 1..Len(open_positions) : open_positions[i].quantity > 0

\* C8: current_balance is initial_balance plus the real PnL of all closed
\* trades (so opening changes nothing and every close counts once).
C8_BalanceIsSumOfRealPnl ==
  current_balance = INITIAL_BALANCE * FeeDen * QtyScale + SumRealPnl(closed_trades)

\* C8 witness: a trade with a real PnL other than 0 is closed and a position
\* is open.
C8_Witness ==
  /\ Len(open_positions) > 0
  /\ \E i \in 1..Len(closed_trades) : closed_trades[i].real_pnl # 0

\* C9: every closed trade has real_pnl = gross_pnl - total_commissions, with
\* gross_pnl = (exit - entry) * qty for LONG, (entry - exit) * qty for SHORT,
\* and total_commissions = entry * qty * maker_fee + exit * qty * taker_fee.
C9_TradeArithmetic ==
  \A i \in 1..Len(closed_trades) :
    LET t == closed_trades[i]
    IN /\ t.real_pnl = t.gross_pnl - t.total_commissions
       /\ t.gross_pnl = (IF t.side = "LONG"
                         THEN (t.exit_price - t.entry_price) * t.quantity
                         ELSE (t.entry_price - t.exit_price) * t.quantity) * FeeDen
       /\ t.total_commissions = t.entry_price * t.quantity * maker_fee
                                  + t.exit_price * t.quantity * taker_fee

\* C9 witness: a LONG and a SHORT trade of positive quantity are closed at a
\* price other than their entry price.
C9_Witness ==
  /\ \E i \in 1..Len(closed_trades) :
       /\ closed_trades[i].side = "LONG"
       /\ closed_trades[i].quantity > 0
       /\ closed_trades[i].exit_price # closed_trades[i].entry_price
  /\ \E i \in 1..Len(closed_trades) :
       /\ closed_trades[i].side = "SHORT"
       /\ closed_trades[i].quantity > 0
       /\ closed_trades[i].exit_price # closed_trades[i].entry_price

\* C10: update_positions called twice in a row with the same market_data
\* closes no more positions the second time than the first, and no position
\* closed by the first call is closed or recorded again by the second.
C10_SecondUpdateClosesNoMore ==
  \A market_data \in PriceMaps :
    LET first == update_positions(Sim, market_data, clock)
        second == update_positions(first, market_data, clock)
    IN /\ Cardinality(NewTrades(first, second)) <= Cardinality(NewTrades(Sim, first))
       /\ Len(second.closed_trades) - Len(first.closed_trades)
            <= Len(first.closed_trades) - Len(closed_trades)
       /\ \A a \in NewTrades(Sim, first), b \in NewTrades(first, second) :
            ~SamePosition(a, b)

\* C10 witness: an update has just closed two positions (the state on which a
\* second call with the same prices would act).
C10_Witness ==
  /\ ret.op = "update"
  /\ ret.closed = 2
  /\ Len(closed_trades) = 2

\* C12: for every symbol at most one _process_symbol task is executing at any
\* time: the task of the current cycle never runs beside a task of an
\* earlier cycle for the same symbol.
C12_OneTaskPerSymbol ==
  \A s \in Symbols : ~(Busy(tasks[<<s, "cur">>]) /\ Busy(tasks[<<s, "old">>]))

\* C13: a task whose future timed out has no further effect: no step of such
\* a task changes the simulator state or the symbol's stored price.
C13_TimedOutTaskHasNoEffect ==
  [][(\E s \in Symbols :
        /\ Busy(tasks[<<s, "old">>])
        /\ tasks'[<<s, "old">>] # tasks[<<s, "old">>])
     => UNCHANGED <<simVars, status_price>>]_vars

\* C11: a position opened by a _process_symbol task of a cycle is not closed
\* by the update_positions call of that same cycle.
C11_NotClosedBySameCycleUpdate ==
  [][(loop_pc = "wait" /\ loop_pc' = "sleep")
     => \A s \in opened_this_cycle :
          Contains(open_positions, s) => Contains(open_positions', s)]_vars

\* the threads that are recording a failure of symbol s
Recording(s) == {w \in {"loop", "cur", "old"} : handler_read[<<s, w>>] # -1}

\* a thread finishes recording a failure of symbol s in this step
Failed(s) == Cardinality(Recording(s)') < Cardinality(Recording(s))

\* C14: no failure of a processing (an exception or missing data in the task,
\* a timeout of its future) moves the monitor out of RUNNING or ends the
\* loop: the step that records the failure leaves the monitor state, the
\* flag and the loop thread as they are, only a step of a start_monitoring or
\* stop_monitoring call leaves RUNNING,
\* the loop leaves its wait for the futures only into the handling of a
\* timeout or into the simulator update, and every wait is followed by the
\* update, the statistics and the test of the next cycle.
C14_FailureKeepsLoopRunning ==
  /\ [][(\E s \in Symbols : Failed(s))
        => /\ mon_state' = mon_state
           /\ monitoring_active' = monitoring_active
           /\ loop_pc # "none" => loop_pc' # "none"]_vars
  /\ [][mon_state = "RUNNING" /\ mon_state' # "RUNNING"
        => caller_pc' # caller_pc /\ UNCHANGED <<errVars, tasks>>]_vars
  /\ [][(loop_pc \in {"wait", "handle"} /\ loop_pc' # loop_pc)
        => (loop_pc' \in {"wait", "handle", "stats"})]_vars
  /\ (loop_pc \in {"wait", "handle"} ~> loop_pc = "stats")
  /\ (loop_pc = "stats" ~> loop_pc = "submit")

\* a failure was recorded in a cycle of the running monitor and the loop has
\* gone on to the simulator update
C14_Witness ==
  /\ loop_pc = "stats"
  /\ mon_state = "RUNNING"
  /\ err_age["S1"] = 0
  /\ error_counts["S1"] > 0

\* a task of symbol s runs to its end without an exception in this step
Succeeded(s) ==
  \E k \in LifeKeys : /\ k[1] = s
                       /\ tasks[k].pc = "run"
                       /\ tasks'[k] = Ended(k)

\* C15: the error count of a symbol goes up by one with every failure that is
\* recorded for it and is 0 after every processing that succeeds, and when a
\* recorded failure brings it to max_errors_per_symbol the symbol is in ERROR.
C15_ErrorCounterPolicy ==
  [][\A s \in LifeSymbols :
       /\ Failed(s) => error_counts'[s] = error_counts[s] + 1
       /\ Succeeded(s) => error_counts'[s] = 0
       /\ (Failed(s) /\ error_counts'[s] >= max_errors_per_symbol)
            => sym_state'[s] = "ERROR"]_vars

\* C16: a symbol in ERROR does not become ACTIVE before more than
\* error_reset_time has passed since its last recorded error.
C16_ErrorUntilResetTime ==
  [][\A s \in LifeSymbols :
       (sym_state[s] = "ERROR" /\ sym_state'[s] = "ACTIVE")
         => err_age[s] > ErrorResetTicks]_vars

\* the reset time has passed since the last recorded error of symbol s
ResetTimePassed(s) == err_age[s] > ErrorResetTicks

ListedTransitions ==
  { <<"STOPPED", "STARTING">>, <<"STARTING", "RUNNING">>, <<"STARTING", "ERROR">>,
    <<"RUNNING", "SHUTTING_DOWN">>, <<"SHUTTING_DOWN", "STOPPED">> }

\* the transitions a start_monitoring after a failed start, a failed start of
\* the loop thread and a stop_monitoring after it add
ErrorTransitions ==
  { <<"ERROR", "STARTING">>, <<"RUNNING", "ERROR">>, <<"ERROR", "SHUTTING_DOWN">> }

\* C18 as stated: for every sequence of start_monitoring and stop_monitoring
\* calls the monitor state changes only along STOPPED -> STARTING,
\* STARTING -> RUNNING, STARTING -> ERROR, RUNNING -> SHUTTING_DOWN and
\* SHUTTING_DOWN -> STOPPED.
C18_OnlyListedTransitions ==
  [][mon_state' # mon_state => <<mon_state, mon_state'>> \in ListedTransitions]_vars

\* C18, amended: the monitor state changes only along the listed transitions
\* and ERROR -> STARTING, RUNNING -> ERROR and ERROR -> SHUTTING_DOWN.
C18_ListedAndErrorTransitions ==
  [][mon_state' # mon_state
     => <<mon_state, mon_state'>> \in ListedTransitions \cup ErrorTransitions]_vars

\* a start_monitoring call is under way after the previous call, a
\* start_monitoring that failed, left the monitor in ERROR and inactive
C18_Witness ==
  /\ mon_state = "STARTING"
  /\ call_ret = [op |-> "start", val |-> FALSE]
  /\ ~monitoring_active

\* C19: when the connectivity test of start_monitoring fails, the call
\* returns False, the monitor state is ERROR and no monitoring loop is
\* started: the flag stays False, no loop thread and no task appears.
C19_FailedConnectivity ==
  [][(caller_pc = "start_check" /\ caller_pc' = "idle")
     => /\ call_ret' = [op |-> "start", val |-> FALSE]
        /\ mon_state' = "ERROR"
        /\ ~monitoring_active'
        /\ loop_pc' = "none"
        /\ UNCHANGED <<tasks, futures>>]_vars

\* start_monitoring has returned False after a failed connectivity test
C19_Witness ==
  /\ caller_pc = "idle"
  /\ call_ret = [op |-> "start", val |-> FALSE]
  /\ mon_state = "ERROR"
  /\ ~monitoring_active
  /\ loop_pc = "none"

\* C20: a stop_monitoring call on an active monitor waits in the join no
\* longer than the join timeout, returns, and when it returns the monitor
\* state is STOPPED and the result is True.
C20_StopReturnsStopped ==
  /\ [](caller_pc = "stop_join" => join_wait <= JoinTimeoutTicks)
  /\ [][(caller_pc = "stop_join" /\ caller_pc' # "stop_join")
        => /\ caller_pc' = "idle"
           /\ mon_state' = "STOPPED"
           /\ call_ret' = [op |-> "stop", val |-> TRUE]]_vars
  /\ (caller_pc = "stop_join" ~> (caller_pc = "idle" /\ mon_state = "STOPPED"))

\* stop_monitoring has returned after the join timed out: the monitor is
\* STOPPED while the loop thread is still alive
C20_Witness ==
  /\ caller_pc = "idle"
  /\ call_ret = [op |-> "stop", val |-> TRUE]
  /\ mon_state = "STOPPED"
  /\ loop_pc # "none"

\* MonitoringStatus.update_symbol_counts, and the same count for PAUSED
symbols_in(state) == Cardinality({s \in LifeSymbols : sym_state[s] = state})

\* C21: at the end of every cycle of the running monitor the ACTIVE, PAUSED
\* and ERROR symbols together are all the configured symbols.
C21_CountsCoverSymbols ==
  (loop_pc = "sleep" /\ mon_state = "RUNNING")
    => symbols_in("ACTIVE") + symbols_in("PAUSED") + symbols_in("ERROR")
         = Cardinality(LifeSymbols)

\* a task of symbol s that computed the indicators ends in this step
EndsComputed(s) ==
  \E k \in LifeKeys :
    /\ k[1] = s
    /\ task_colors[k].computed
    /\ tasks[k].pc \in {"read", "detect"}
    /\ tasks'[k] = Ended(k)

\* C22: when a processSymbol that computed the indicators ends, the latch is
\* LONG only under BLUE with MAROON or LIME and SHORT only under RED with
\* GREEN or RED (the colours of the status); any other latch is cleared.
C22_LatchSupported ==
  [][\A s \in LifeSymbols :
       EndsComputed(s) =>
         (latest_signal_type'[s] # "None"
            => signal_still_valid(latest_signal_type'[s], trend_magic_color'[s],
                                  squeeze_status'[s]))]_vars

\* the estimated bytes of the resident entries
RECURSIVE resident_bytes(_)
resident_bytes(entries) ==
  IF entries = <<>> THEN 0
  ELSE Head(entries).size_bytes + resident_bytes(Tail(entries))

\* C23: the estimated bytes of the resident entries never exceed
\* maxSizeMB * 1 048 576, whatever puts, gets, invalidations and janitor
\* sweeps have happened.
C23_BytesWithinLimit == resident_bytes(cache) <= max_size_mb * 1048576

\* the entries other than the one under key, in their order
Others(entries, key) == SelectSeq(entries, LAMBDA e : e.key # key)

\* without an eviction, put(request, data) would leave more than the limit
WouldExceed(request, data) ==
  /\ request.use_cache
  /\ resident_bytes(Others(cache, get_cache_key(request))) + calculate_size(data)
       > max_size_mb * 1048576

\* put(request, data) drops exactly the n least recently used entries: the
\* others stay in their order below the new entry, they are at most 80 % of
\* the limit, and with the n-th entry they were more
PutEvicts(request, data, n) ==
  LET after == put(Cache, request, data, 0, clock).cache
      rest == SubSeq(cache, n + 1, Len(cache))
  IN /\ SubSeq(after, 1, Len(after) - 1) = Others(rest, get_cache_key(request))
     /\ after[Len(after)].key = get_cache_key(request)
     /\ 5 * resident_bytes(rest) <= 4 * max_size_mb * 1048576
     /\ n > 0 => 5 * resident_bytes(SubSeq(cache, n, Len(cache)))
                    > 4 * max_size_mb * 1048576

\* a get hit leaves the entries as they were, its key moved to the most
\* recently used end
GetHitMovesToEnd(request) ==
  LET r == get(Cache, request, clock)
      key == get_cache_key(request)
  IN r.val # None =>
       /\ r.c.cache # <<>>
       /\ r.c.cache[Len(r.c.cache)].key = key
       /\ Others(r.c.cache, key) = Others(cache, key)

\* C24: a put that would push the cache past its byte limit first evicts in
\* least-recently-used order (a get hit makes its key the most recently
\* used) until the resident bytes are at most 80 % of the limit.
C24_EvictsLeastRecentlyUsed ==
  /\ \A request \in Requests, data \in Series :
       WouldExceed(request, data)
         => \E n \in 0..Len(cache) : PutEvicts(request, data, n)
  /\ \A request \in Requests : GetHitMovesToEnd(request)

\* a put into a cache of three entries has evicted the least recently used
C24_Witness ==
  /\ cache_ret.op = "put"
  /\ cache_ret.removed = 1
  /\ Len(cache) = 3

\* the four reasons for a miss: the key is absent, the entry is expired,
\* the request asks for a refresh, the entry is older than the request allows
ListedMiss(request) ==
  LET key == get_cache_key(request)
  IN \/ ~HasKey(Cache, key)
     \/ clock > EntryOf(Cache, key).expires_at
     \/ request.force_refresh
     \/ clock - EntryOf(Cache, key).created_at > request.cache_timeout

\* get(request) returns none if miss holds and the stored series if not
GetReturns(request, miss) ==
  get(Cache, request, clock).val =
    IF miss THEN None ELSE EntryOf(Cache, get_cache_key(request)).data

\* C25 as stated: get(request) returns none exactly when the key is absent,
\* the entry is expired, forceRefresh is set or the entry is older than
\* cacheTimeout, and the stored series in every other case.
C25_NoneExactlyWhenListed ==
  \A request \in Requests : GetReturns(request, ListedMiss(request))

\* C25, amended: get(request) returns none exactly when the request does not
\* use the cache, the key is absent, the entry is expired, forceRefresh is
\* set or the entry is older than cacheTimeout, and the stored series in
\* every other case.
C25_NoneWhenListedOrCacheUnused ==
  \A request \in Requests :
    GetReturns(request, ~request.use_cache \/ ListedMiss(request))

\* a get has returned a series that was put at an earlier moment
C25_Witness ==
  /\ cache_ret.op = "get"
  /\ cache_ret.val \in Series
  /\ \E i \in 1..Len(cache) : cache[i].data = cache_ret.val /\ cache[i].created_at < clock

\* after put(request, data) the series is resident under the request's key,
\* created now and expiring after the default TTL
PutStores(request, data) ==
  LET after == put(Cache, request, data, 0, clock)
      key == get_cache_key(request)
  IN /\ HasKey(after, key)
     /\ EntryOf(after, key).data = data
     /\ EntryOf(after, key).created_at = clock
     /\ EntryOf(after, key).expires_at = clock + default_ttl

\* an entry stays as it was put: every resident entry was resident before
\* or is the one a put has just stored
EntriesAsPut ==
  \A i \in 1..Len(cache') :
    \/ \E j \in 1..Len(cache) : cache[j] = cache'[i]
    \/ cache_ret'.op = "put" /\ i = Len(cache')

\* get(request) returns the series resident under the request's key
GetReturnsResident(request) ==
  get(Cache, request, clock).val = EntryOf(Cache, get_cache_key(request)).data

\* the entry under the request's key is resident and within its TTL
ResidentWithinTtl(request) ==
  /\ HasKey(Cache, get_cache_key(request))
  /\ clock <= EntryOf(Cache, get_cache_key(request)).expires_at

\* C26 as stated: after put(r, s), a get(r) within the entry's TTL and with
\* no eviction or invalidation in between returns s.
C26_GetAfterPut ==
  /\ [](\A request \in Requests, data \in Series : PutStores(request, data))
  /\ [][EntriesAsPut]_vars
  /\ [](\A request \in Requests :
          ResidentWithinTtl(request) => GetReturnsResident(request))

\* C26, amended: after put(r, s) with r.useCache set, a get(r) within the
\* entry's TTL and within r.cacheTimeout of the put, with r.forceRefresh not
\* set and with no eviction, invalidation or other put of the key in
\* between, returns s.
C26_GetAfterPutOfUsableRequest ==
  /\ [](\A request \in Requests, data \in Series :
          request.use_cache => PutStores(request, data))
  /\ [][EntriesAsPut]_vars
  /\ [](\A request \in Requests :
          ( /\ ResidentWithinTtl(request)
            /\ request.use_cache
            /\ ~request.force_refresh
            /\ clock - EntryOf(Cache, get_cache_key(request)).created_at
                 <= request.cache_timeout )
          => GetReturnsResident(request))

\* fifty seconds after its put, series b has been returned by a get and is
\* the most recently used entry
C26_Witness ==
  /\ cache_ret.op = "get"
  /\ cache_ret.val = SeriesB
  /\ clock = 50
  /\ cache # <<>>
  /\ cache[Len(cache)].data = SeriesB
  /\ cache[Len(cache)].created_at = 0

\* the position of the first "_" of a string
FirstSep(str) ==
  CHOOSE i \in 1..Len(str) : str[i] = "_" /\ \A j \in 1..(i - 1) : str[j] # "_"

\* the symbol and the timeframe a key was made from: its first two fields
key_symbol(key) == SubSeq(key, 1, FirstSep(key) - 1)
key_timeframe(key) ==
  LET rest == SubSeq(key, FirstSep(key) + 1, Len(key))
  IN SubSeq(rest, 1, FirstSep(rest) - 1)

\* the entries invalidate(symbol, tf) is to remove
Matches(entry, symbol, tf) ==
  /\ key_symbol(entry.key) = symbol
  /\ tf = NoTimeframe \/ key_timeframe(entry.key) = tf

\* C27: invalidate(symbol, interval?) removes exactly the entries of that
\* symbol (and of that interval, when given); the entries of other symbols
\* or other intervals stay in the cache.
C27_InvalidateExact ==
  \A symbol \in CacheSymbols, tf \in CacheTimeframes \cup {NoTimeframe} :
    invalidate(Cache, symbol, tf).cache
      = SelectSeq(cache, LAMBDA e : ~Matches(e, symbol, tf))

\* requests with the default options, constructed at any moment so far
DefaultRequests ==
  {r \in Requests : r.use_cache /\ ~r.force_refresh
                      /\ r.cache_timeout = default_cache_timeout}

\* C28: two requests with the same symbol, interval and limit have the same
\* cache key whenever they are constructed, so a series put under one is
\* returned by a get with the other while the entry is fresh.
C28_SameKeyWheneverConstructed ==
  \A r1 \in DefaultRequests, r2 \in DefaultRequests :
    (r1.symbol = r2.symbol /\ r1.timeframe = r2.timeframe /\ r1.limit = r2.limit)
      => /\ get_cache_key(r1) = get_cache_key(r2)
         /\ \A data \in Series :
              get(put(Cache, r1, data, 0, clock), r2, clock).val = data

\* C29: in every rolling window the client has sent at most the budgeted
\* number of requests and at most the budgeted weight, whatever the
\* interleaving of the callers.
C29_WithinBudgets ==
  /\ Len(in_window(issued, clock)) <= rate_limit_requests_per_minute
  /\ sum_weight(in_window(issued, clock)) <= rate_limit_weight_per_minute

\* caller t, which had to wait for a budget, sends its request in this step
SendsAfterWait(t) ==
  /\ callers[t].pc = "request"
  /\ callers[t].waited
  /\ callers'[t].pc = "idle"

\* caller t is blocked in a sleep of _check_rate_limit
Blocked(t) == callers[t].pc \in {"count_sleep", "weight_sleep"}

\* C30: a call that finds a budget exhausted blocks until enough of the
\* window has aged out and then proceeds: no caller ever gets an error from
\* the limiter, a request sent after waiting fits both budgets, and every
\* blocked caller eventually sends its request.
C30_BlockedCallProceeds ==
  /\ [](\A t \in Callers : callers[t].pc # "raised")
  /\ [][\A t \in Callers : SendsAfterWait(t) => C29_WithinBudgets']_vars
  /\ \A t \in Callers : Blocked(t) ~> (callers[t].pc = "request")

\* C31: a candle fetch makes at most 3 attempts against the exchange and
\* then ends, and a fetch that has given up hands None to its caller.
C31_AtMostThreeAttempts ==
  /\ proc.attempts <= 3
  /\ proc.pc = "failed" => proc.data = "None"

\* C33: when the exchange reports an unknown symbol for S, the failure that
\* _process_symbol records for it moves S to ERROR at once, whatever the
\* error count.
C33_UnknownSymbolIsError ==
  [][(proc.pc = "failed" /\ proc.status = "400" /\ proc'.pc = "idle")
       => sym_state'[proc.symbol] = "ERROR"]_vars

\* C37: from pause_symbol(S) until resume_symbol(S), S stays in state PAUSED
\* and no _process_symbol call for S begins (hence no fetch, no signal
\* detection and no position for S out of such a call).
C37_PausedNotProcessed ==
  [][\A s \in ProcSymbols :
       (s \in paused /\ s \in paused')
         => /\ sym_state'[s] = "PAUSED"
            /\ ~(proc.pc = "idle" /\ proc'.pc # "idle" /\ proc'.symbol = s)]_vars

\* C32: when the write of a closed trade fails, close_position still
\* completes: the trade is the new last element of closed_trades, the
\* position is no longer open, the balance has changed by the trade's real
\* PnL, and the trades table is as it was.
C32_CloseSurvivesFailedWrite ==
  [][(ret'.op = "close" /\ ret'.val /\ last_log' = <<FALSE>>)
       => /\ ~Contains(open_positions', ret'.symbol)
          /\ Len(open_positions') = Len(open_positions) - 1
          /\ Len(closed_trades') = Len(closed_trades) + 1
          /\ SubSeq(closed_trades', 1, Len(closed_trades)) = closed_trades
          /\ closed_trades'[Len(closed_trades')].symbol = ret'.symbol
          /\ current_balance'
               = current_balance + closed_trades'[Len(closed_trades')].real_pnl
          /\ total_trades' = total_trades + 1
          /\ db_trades' = db_trades]_vars

\* a close_position call whose write failed has returned, with rows of
\* earlier trades in the table
C32_Witness ==
  /\ ret.op = "close" /\ ret.val
  /\ last_log = <<FALSE>>
  /\ Len(db_trades) > 0
  /\ Len(closed_trades) > Len(db_trades)

\* C34: open_position, update_positions and close_position run mutually
\* exclusively on the simulator state: while a task is inside open_position,
\* between its capacity check and its insertion, no other caller changes the
\* simulator state.
C34_MutatorsExclusive ==
  [][\A k \in TaskKeys :
       (tasks[k].pc = "insert" /\ tasks'[k].pc = "insert") => Sim' = Sim]_vars

\* C35: whatever the sequence of start_monitoring and stop_monitoring calls,
\* at most one monitoring loop is running a cycle at any time.
C35_AtMostOneLoop ==
  Cardinality({l \in LoopIds : loops[l].pc = "cycle"}) <= 1

\* stop_monitoring has returned True with the monitor STOPPED, and
\* start_monitoring has not been called since
StoppedReturned ==
  /\ caller_pc = "idle"
  /\ mon_state = "STOPPED"
  /\ call_ret = [op |-> "stop", val |-> TRUE]

\* C36: after stop_monitoring has returned with state STOPPED, and until
\* start_monitoring is called again, no step of a worker task or of the loop
\* moves a symbol's state away from INACTIVE.
C36_QuietAfterStop ==
  [][(StoppedReturned /\ StoppedReturned')
       => \A s \in LifeSymbols :
            sym_state[s] = "INACTIVE" => sym_state'[s] = "INACTIVE"]_vars

C39_TrendLineMonotone ==
  \A i \in 2..Len(magic_trend) :
    LET bar == bars[i]
        prev == magic_trend[i - 1]
        cur == magic_trend[i]
    IN /\ (~isnan(bar.cci) /\ bar.cci >= 0 /\ ~isnan(up(bar)) /\ ~isnan(prev)) =>
            /\ cur = (IF up(bar) >= prev THEN up(bar) ELSE prev)
            /\ cur >= prev
       /\ (~isnan(bar.cci) /\ bar.cci < 0 /\ ~isnan(down(bar)) /\ ~isnan(prev)) =>
            /\ cur = (IF down(bar) <= prev THEN down(bar) ELSE prev)
            /\ cur <= prev
       /\ (~isnan(bar.cci) /\ bar.cci >= 0 /\ isnan(up(bar))) => cur = prev
       /\ (~isnan(bar.cci) /\ bar.cci < 0 /\ isnan(down(bar))) => cur = prev

\* a computed series in which the previous value wins over the upper band on
\* one bar and a later bar without a band inherits it
C39_Witness ==
  /\ Len(magic_trend) = MaxBars
  /\ bars[2].cci >= 0 /\ ~isnan(bars[2].cci)
  /\ ~isnan(up(bars[2])) /\ ~isnan(magic_trend[1])
  /\ up(bars[2]) < magic_trend[1]
  /\ magic_trend[2] = magic_trend[1]
  /\ isnan(bars[3].atr) /\ ~isnan(bars[3].cci)
  /\ magic_trend[3] = magic_trend[2]

\* C40: after any sequence of put, get, invalidate, clear and janitor sweeps
\* the byte counter is the sum of the sizes of the entries in the map, and
\* it is never negative
C40_CounterIsSumOfSizes ==
  /\ current_size_bytes = resident_bytes(cache)
  /\ current_size_bytes >= 0

\* an operation has just removed an entry and left another one in the map
C40_Witness ==
  /\ cache_ret.op \in {"cleanup", "get", "invalidate", "put"}
  /\ cache_ret.removed > 0
  /\ cache # <<>>
  /\ current_size_bytes > 0

====
